---- MODULE Spec2Model ----
(***************************************************************************)
(* Model of SA32Driver (src/sa32_driver.py): the connection state machine, *)
(* the reentrant session lock, the unlocked connection check and reconnect *)
(* loop that precede every register operation, the mock register store and *)
(* the real transport's outcomes, the LastError slot and the events each   *)
(* operation dispatches.  Several threads call the public operations of    *)
(* one session; every step below is one atomic access to the session.      *)
(* Further scenarios: one caller with the housekeeping operations          *)
(* (callbacks, clear_error, set_mock_register), one caller of a mock       *)
(* session whose writes and reads are remembered, two sessions side by     *)
(* side, and the worker threads of the thread-safety tests.                *)
(***************************************************************************)
EXTENDS Integers, Sequences, FiniteSets, TLC

\* ------------------------------------------------------------------ bounds
NumThreads == 2
MaxReconnect == 2
MaxAddr == 1
MaxVal == 1
MaxExcCode == 2

Threads == 1..NumThreads
NoThread == 0
Addrs == 0..MaxAddr
Values == 0..MaxVal
Unset == -1
ExcCodes == 1..MaxExcCode

ReadOps == {"read_holding_registers", "read_input_registers",
            "read_holding_register", "read_input_register"}
SingleReadOps == {"read_holding_register", "read_input_register"}
WriteOps == {"write_register", "write_registers"}
RegisterOps == ReadOps \cup WriteOps
Ops == {"connect", "disconnect"} \cup RegisterOps

VARIABLES
    mock_mode,               \* self.mock_mode
    auto_reconnect,          \* self.auto_reconnect
    max_reconnect_attempts,  \* self.max_reconnect_attempts
    reconnect_delay,         \* self.reconnect_delay (seconds)
    connected,               \* self._connected
    client,                  \* self._client: "None", "closed" (built, not open), "open"
    last_error,              \* self._last_error
    mock_registers,          \* self._mock_registers (Unset: key absent)
    lockOwner, lockDepth,    \* self._lock (threading.RLock)
    pc,                      \* each thread's position in its current call
    op,                      \* the public operation the thread is in
    attempt,                 \* loop variable of _attempt_reconnect
    reconnRet,               \* what _attempt_reconnect returned: "none", "true", "false"
    ncalls, nsleeps,         \* connect() calls and time.sleep() calls of the current reconnect loop
    wr,                      \* write_registers: address, values and loop index
    emitted,                 \* events the thread's current operation has dispatched
    result,                  \* how the thread's operation ended
    nresults,                \* results each worker thread has collected (worker scenario)
    callbacks,               \* self._callbacks: event name -> list of callbacks
    history,                 \* what the callers have written to and read from the mock store
    drivers, heap,           \* two-session scenario: the sessions and the dicts they refer to
    scope,                   \* each thread's position in a `with driver:` statement
    dispatch,                \* _trigger_callbacks of each thread: its loop and the calls it made
    codec,                   \* the latest write_float and read_float: arguments, registers, result
    instance,                \* SA32Driver(...): the arguments and what the constructor produced
    nesting                  \* calls made from event callbacks: the dispatch in progress and the callers' frames

vars == <<mock_mode, auto_reconnect, max_reconnect_attempts, reconnect_delay, connected, client,
          last_error, mock_registers, lockOwner, lockDepth, pc, op, attempt,
          reconnRet, ncalls, nsleeps, wr, emitted, result, nresults,
          callbacks, history, drivers, heap, scope, dispatch, codec, instance, nesting>>

config == <<mock_mode, auto_reconnect, max_reconnect_attempts, reconnect_delay>>
session == <<connected, client, last_error, mock_registers>>
lock == <<lockOwner, lockDepth>>
loopvars == <<attempt, reconnRet, ncalls, nsleeps>>
pair == <<drivers, heap>>
apart == <<codec, instance, nesting>>

\* ------------------------------------------------------------------ values
EquipmentError(status, code) == [status |-> status, code |-> code]
NoError == EquipmentError(FALSE, 0)

Event(name, data) == [event |-> name, data |-> data]

NoResult == [kind |-> "none", val |-> <<>>]
Ok(val) == [kind |-> "ok", val |-> val]
SA32ConnectionError == [kind |-> "ConnectionError", val |-> <<>>]
SA32CommunicationError == [kind |-> "CommunicationError", val |-> <<>>]
\* What time.sleep raises for a negative delay.
ValueError == [kind |-> "ValueError", val |-> <<>>]

NoWrite == [address |-> 0, values |-> <<>>, i |-> 0]

\* self._callbacks = {'on_connect': [], 'on_disconnect': [], 'on_error': [],
\* 'on_data_received': []}
EventNames == {"on_connect", "on_disconnect", "on_error", "on_data_received"}
NoCallbacks == [e \in EventNames |-> <<>>]

\* _trigger_callbacks of a thread: how many of the events its operation has
\* emitted are dispatched, the position of the loop in the list of the event
\* being dispatched, and the calls made so far.
NoDispatch == [delivered |-> 0, index |-> 0, invoked |-> <<>>]

\* No float has been written or read; no session has been constructed here.
NoFloatOp == [address |-> -1, byte_order |-> "", word_order |-> "", value |-> "None",
              registers |-> <<>>]
NoCodec == [write |-> NoFloatOp, read |-> NoFloatOp]
NoInstance == [stage |-> "none"]

\* A dispatch made while the operation holds the lock: after is how the
\* operation goes on once _trigger_callbacks has returned and calls the number
\* of session operations the event's callbacks have called; frames holds the
\* locals of the operations that are waiting for a callback to return.
NoAfter == [kind |-> "none", result |-> NoResult, calls |-> 0]
NoNesting == [after |-> NoAfter, frames |-> <<>>]

\* What the callers have seen of the mock store, per address: written is the
\* value of the latest write (write_register, write_registers,
\* set_mock_register), read the value the latest read returned since then.
\* Untracked: the scenario keeps no history.
Untracked == [written |-> <<>>, read |-> <<>>]
NoHistory == [written |-> [a \in Addrs |-> Unset], read |-> [a \in Addrs |-> Unset],
              manual |-> {}]
Range(address, count) == address..(address + count - 1)
TrackWrite(h, address, values) ==
    IF h = Untracked THEN h
    ELSE [written |-> [x \in Addrs |-> IF x \in Range(address, Len(values))
                                       THEN values[x - address + 1] ELSE h.written[x]],
          read |-> [x \in Addrs |-> IF x \in Range(address, Len(values))
                                    THEN Unset ELSE h.read[x]],
          manual |-> h.manual \ Range(address, Len(values))]
\* manual: the addresses whose latest write was a set_mock_register.
TrackManual(h, address) ==
    IF h = Untracked THEN h ELSE [h EXCEPT !.manual = @ \cup {address}]
TrackRead(h, address, values) ==
    IF h = Untracked THEN h
    ELSE [h EXCEPT !.read = [x \in Addrs |-> IF x \in Range(address, Len(values))
                                             THEN values[x - address + 1] ELSE @[x]]]

\* Two sessions built side by side (test_multiple_drivers).  A session's
\* _mock_registers is a reference to a dict; heap maps each dict to its content.
Sessions == {"driver1", "driver2"}
EmptyStore == [a \in Addrs |-> Unset]
\* Faulty variant: one dict serves every session.
NewDriverSharedStore(dict) ==
    [connected |-> FALSE, last_error |-> NoError, callbacks |-> NoCallbacks,
     mock_registers |-> CHOOSE s \in Sessions : TRUE]

\* __init__: dict is the dict that `self._mock_registers = {}` creates.
NewDriver(dict) ==
    [connected |-> FALSE, last_error |-> NoError, callbacks |-> NoCallbacks,
     mock_registers |-> dict]

\* Non-empty value sequences that fit in the modelled address range from a.
Batches(a) == UNION {[1..n -> Values] : n \in 1..(MaxAddr - a + 1)}

\* _trigger_callbacks: the event is dispatched (appended to what the calling
\* operation has emitted); a callback's failure never leaves the dispatch.
trigger_callbacks(t, name, data) == Append(emitted[t], Event(name, data))

\* ------------------------------------------------------------------ the lock
\* Faulty variant: the lock excludes nobody.
CanAcquireAlways(t) == TRUE

\* Faulty variant: a plain lock, which its own holder cannot take again.
CanAcquireUnowned(t) == lockOwner = NoThread

\* threading.RLock: free, or held by the calling thread
CanAcquire(t) == lockOwner \in {NoThread, t}

Acquire(t) ==
    /\ CanAcquire(t)
    /\ lockOwner' = t
    /\ lockDepth' = lockDepth + 1

\* Faulty variant: the lock is never handed back.
ReleaseKeepsOwner(t) ==
    /\ lockDepth' = lockDepth
    /\ lockOwner' = lockOwner

Release(t) ==
    /\ lockDepth' = lockDepth - 1
    /\ lockOwner' = IF lockDepth = 1 THEN NoThread ELSE lockOwner

\* ------------------------------------------------------------------ Init
Init ==
    /\ mock_mode \in BOOLEAN
    /\ auto_reconnect \in BOOLEAN
    /\ max_reconnect_attempts \in 0..MaxReconnect
    /\ reconnect_delay = 0
    /\ connected = FALSE
    /\ client = "None"
    /\ last_error = NoError
    /\ mock_registers = EmptyStore
    /\ lockOwner = NoThread
    /\ lockDepth = 0
    /\ pc = [t \in Threads |-> "idle"]
    /\ op = [t \in Threads |-> "none"]
    /\ attempt = [t \in Threads |-> 0]
    /\ reconnRet = [t \in Threads |-> "none"]
    /\ ncalls = [t \in Threads |-> 0]
    /\ nsleeps = [t \in Threads |-> 0]
    /\ wr = [t \in Threads |-> NoWrite]
    /\ emitted = [t \in Threads |-> <<>>]
    /\ result = [t \in Threads |-> NoResult]
    /\ nresults = [t \in Threads |-> 0]
    /\ callbacks = NoCallbacks
    /\ history = Untracked
    /\ drivers = [s \in Sessions |-> NewDriver(s)]
    /\ heap = [s \in Sessions |-> EmptyStore]
    /\ scope = [t \in Threads |-> "outside"]
    /\ dispatch = [t \in Threads |-> NoDispatch]
    /\ codec = NoCodec
    /\ instance = NoInstance
    /\ nesting = [t \in Threads |-> NoNesting]

\* ------------------------------------------------------------------ calls
\* A thread calls a public operation.  connect and disconnect go straight to
\* `with self._lock`; a register operation first runs _ensure_connected.
CallOp(t, o) ==
    /\ pc[t] = "idle"
    /\ op' = [op EXCEPT ![t] = o]
    /\ pc' = [pc EXCEPT ![t] =
                CASE o = "connect" -> "conn_lock"
                  [] o = "disconnect" -> "disc_lock"
                  [] OTHER -> "ensure"]
    /\ UNCHANGED <<config, apart, callbacks, history, pair, scope, dispatch, session, lock, loopvars, wr, emitted, result, nresults>>

Call(t) == \E o \in Ops : CallOp(t, o)

\* The locals of a finished call are dropped.
Outside(t) ==
    /\ pc' = [pc EXCEPT ![t] = "idle"]
    /\ op' = [op EXCEPT ![t] = "none"]
    /\ attempt' = [attempt EXCEPT ![t] = 0]
    /\ reconnRet' = [reconnRet EXCEPT ![t] = "none"]
    /\ ncalls' = [ncalls EXCEPT ![t] = 0]
    /\ nsleeps' = [nsleeps EXCEPT ![t] = 0]
    /\ emitted' = [emitted EXCEPT ![t] = <<>>]
    /\ result' = [result EXCEPT ![t] = NoResult]

\* The caller takes the result; the thread is ready for its next call.
Return(t) ==
    /\ pc[t] = "done"
    /\ pc' = [pc EXCEPT ![t] = "idle"]
    /\ op' = [op EXCEPT ![t] = "none"]
    /\ attempt' = [attempt EXCEPT ![t] = 0]
    /\ reconnRet' = [reconnRet EXCEPT ![t] = "none"]
    /\ ncalls' = [ncalls EXCEPT ![t] = 0]
    /\ nsleeps' = [nsleeps EXCEPT ![t] = 0]
    /\ emitted' = [emitted EXCEPT ![t] = <<>>]
    /\ result' = [result EXCEPT ![t] = NoResult]
    /\ UNCHANGED <<config, apart, callbacks, history, pair, scope, dispatch, session, lock, wr, nresults>>

\* ------------------------------------------------------------------ _attempt_reconnect
\* for attempt in range(1, self.max_reconnect_attempts + 1): is there an
\* iteration numbered next?
LoopContinues(next, max) == next <= max

\* Faulty variant: a sleep follows the last failed attempt too.
SleepsAfterEveryFailure(att, max) == att <= max

\* except SA32ConnectionError: if attempt < self.max_reconnect_attempts: sleep
SleepsAfterFailure(att, max) == att < max

\* The loop moves on from iteration att (0: the loop is entered): either it
\* calls connect() again, or it is exhausted and returns False.  The caller,
\* _ensure_connected, drops that return value and returns normally, so the
\* register operation goes on to its data access.
LoopAdvance(t) ==
    IF LoopContinues(attempt[t] + 1, max_reconnect_attempts)
    THEN /\ attempt' = [attempt EXCEPT ![t] = @ + 1]
         /\ ncalls' = [ncalls EXCEPT ![t] = @ + 1]
         /\ pc' = [pc EXCEPT ![t] = "conn_lock"]
         /\ UNCHANGED reconnRet
    ELSE /\ reconnRet' = [reconnRet EXCEPT ![t] = "false"]
         /\ pc' = [pc EXCEPT ![t] = "data_lock"]
         /\ UNCHANGED <<attempt, ncalls>>

\* ------------------------------------------------------------------ _ensure_connected
\* Runs before `with self._lock` of the register operation: it reads
\* self._connected without holding the lock.
\* Faulty variant: the auto_reconnect flag is not looked at.
ensure_connected_ignores_flag(conn, auto) == IF conn THEN "connected" ELSE "reconnect"

ensure_connected(conn, auto) ==
    IF conn THEN "connected" ELSE IF auto THEN "reconnect" ELSE "raise"

EnsureConnectedOk(t) ==
    /\ pc[t] = "ensure"
    /\ ensure_connected(connected, auto_reconnect) = "connected"
    /\ pc' = [pc EXCEPT ![t] = "data_lock"]
    /\ UNCHANGED <<config, apart, callbacks, history, pair, scope, dispatch, session, lock, op, loopvars, wr, emitted, result, nresults>>

EnsureConnectedReconnect(t) ==
    /\ pc[t] = "ensure"
    /\ ensure_connected(connected, auto_reconnect) = "reconnect"
    /\ LoopAdvance(t)
    /\ UNCHANGED <<config, apart, callbacks, history, pair, scope, dispatch, session, lock, op, nsleeps, wr, emitted, result, nresults>>

EnsureConnectedFail(t) ==
    /\ pc[t] = "ensure"
    /\ ensure_connected(connected, auto_reconnect) = "raise"
    /\ last_error' = EquipmentError(TRUE, -1)
    /\ emitted' = [emitted EXCEPT ![t] = trigger_callbacks(t, "on_error", <<-1>>)]
    /\ result' = [result EXCEPT ![t] = SA32ConnectionError]
    /\ pc' = [pc EXCEPT ![t] = "done"]
    /\ UNCHANGED <<config, apart, callbacks, history, pair, scope, dispatch, connected, client, mock_registers, lock, op, loopvars, wr, nresults>>

\* time.sleep(self.reconnect_delay) between two attempts; no lock is held.
\* time.sleep raises ValueError for a negative delay: nothing between the
\* loop and the caller of the register operation catches it.
Sleep(t) ==
    /\ pc[t] = "sleep"
    /\ IF reconnect_delay < 0
       THEN /\ result' = [result EXCEPT ![t] = ValueError]
            /\ pc' = [pc EXCEPT ![t] = "done"]
            /\ UNCHANGED loopvars
       ELSE /\ nsleeps' = [nsleeps EXCEPT ![t] = @ + 1]
            /\ LoopAdvance(t)
            /\ UNCHANGED result
    /\ UNCHANGED <<config, apart, callbacks, history, pair, scope, dispatch, session, lock, op, wr, emitted, nresults>>

\* ------------------------------------------------------------------ connect
ConnectAcquire(t) ==
    /\ pc[t] = "conn_lock"
    /\ Acquire(t)
    /\ pc' = [pc EXCEPT ![t] = "conn_body"]
    /\ UNCHANGED <<config, apart, callbacks, history, pair, scope, dispatch, session, op, loopvars, wr, emitted, result, nresults>>

\* Faulty variant: the reconnect loop goes on after a connect() that
\* returned True.
ConnectReturnsTrueKeepsLooping(t) ==
    IF op[t] = "connect"
    THEN /\ pc' = [pc EXCEPT ![t] = "done"]
         /\ result' = [result EXCEPT ![t] = Ok(<<>>)]
         /\ UNCHANGED loopvars
    ELSE /\ LoopAdvance(t)
         /\ UNCHANGED <<result, nsleeps>>

\* connect() returned True: to the caller of connect(), or to the reconnect
\* loop, which returns True to _ensure_connected.
ConnectReturnsTrue(t) ==
    /\ pc' = [pc EXCEPT ![t] = IF op[t] = "connect" THEN "done" ELSE "data_lock"]
    /\ result' = [result EXCEPT ![t] = IF op[t] = "connect" THEN Ok(<<>>) ELSE @]
    /\ reconnRet' = [reconnRet EXCEPT ![t] = IF op[t] = "connect" THEN @ ELSE "true"]
    /\ UNCHANGED <<attempt, ncalls, nsleeps>>

\* connect() raised SA32ConnectionError: to the caller of connect(), or to
\* the reconnect loop, which catches it, sleeps unless this was the last
\* attempt, and goes on with the loop.
ConnectRaises(t) ==
    IF op[t] = "connect"
    THEN /\ pc' = [pc EXCEPT ![t] = "done"]
         /\ result' = [result EXCEPT ![t] = SA32ConnectionError]
         /\ UNCHANGED loopvars
    ELSE /\ UNCHANGED <<result, nsleeps>>
         /\ IF SleepsAfterFailure(attempt[t], max_reconnect_attempts)
            THEN /\ pc' = [pc EXCEPT ![t] = "sleep"]
                 /\ UNCHANGED <<attempt, reconnRet, ncalls>>
            ELSE LoopAdvance(t)

\* Faulty variant: the no-op branch dispatches on_connect again.
ConnectAlreadyDispatches(t) ==
    /\ pc[t] = "conn_body"
    /\ connected
    /\ emitted' = [emitted EXCEPT ![t] = trigger_callbacks(t, "on_connect", <<>>)]
    /\ Release(t)
    /\ ConnectReturnsTrue(t)
    /\ UNCHANGED <<config, apart, callbacks, history, pair, scope, dispatch, session, op, wr, nresults>>

\* if self._connected: return True
ConnectAlready(t) ==
    /\ pc[t] = "conn_body"
    /\ connected
    /\ Release(t)
    /\ ConnectReturnsTrue(t)
    /\ UNCHANGED <<config, apart, callbacks, history, pair, scope, dispatch, session, op, wr, emitted, nresults>>

\* if self.mock_mode: the connection is simulated
\* Faulty variant: the mock connection is made without telling anyone.
ConnectMockSilent(t) ==
    /\ pc[t] = "conn_body"
    /\ ~connected
    /\ mock_mode
    /\ connected' = TRUE
    /\ Release(t)
    /\ ConnectReturnsTrue(t)
    /\ UNCHANGED <<config, apart, callbacks, history, pair, scope, dispatch, client, last_error, mock_registers, op, wr, emitted, nresults>>

ConnectMock(t) ==
    /\ pc[t] = "conn_body"
    /\ ~connected
    /\ mock_mode
    /\ connected' = TRUE
    /\ emitted' = [emitted EXCEPT ![t] = trigger_callbacks(t, "on_connect", <<>>)]
    /\ Release(t)
    /\ ConnectReturnsTrue(t)
    /\ UNCHANGED <<config, apart, callbacks, history, pair, scope, dispatch, client, last_error, mock_registers, op, wr, nresults>>

\* The transport is built and self._client.connect() returns True.
ConnectOpen(t) ==
    /\ pc[t] = "conn_body"
    /\ ~connected
    /\ ~mock_mode
    /\ client' = "open"
    /\ connected' = TRUE
    /\ last_error' = NoError
    /\ emitted' = [emitted EXCEPT ![t] = trigger_callbacks(t, "on_connect", <<>>)]
    /\ Release(t)
    /\ ConnectReturnsTrue(t)
    /\ UNCHANGED <<config, apart, callbacks, history, pair, scope, dispatch, mock_registers, op, wr, nresults>>

\* Faulty variant: a failed open raises without recording or dispatching.
ConnectOpenFailSilent(t) ==
    /\ pc[t] = "conn_body"
    /\ ~connected
    /\ ~mock_mode
    /\ client' = "closed"
    /\ Release(t)
    /\ ConnectRaises(t)
    /\ UNCHANGED <<config, apart, callbacks, history, pair, scope, dispatch, connected, last_error, mock_registers, op, wr, emitted, nresults>>

\* The transport is built, self._client.connect() returns False or raises:
\* the handle stays in self._client, the error is recorded and dispatched.
ConnectOpenFail(t) ==
    /\ pc[t] = "conn_body"
    /\ ~connected
    /\ ~mock_mode
    /\ client' = "closed"
    /\ last_error' = EquipmentError(TRUE, -1)
    /\ emitted' = [emitted EXCEPT ![t] = trigger_callbacks(t, "on_error", <<-1>>)]
    /\ Release(t)
    /\ ConnectRaises(t)
    /\ UNCHANGED <<config, apart, callbacks, history, pair, scope, dispatch, connected, mock_registers, op, wr, nresults>>

\* ------------------------------------------------------------------ disconnect
DisconnectAcquire(t) ==
    /\ pc[t] = "disc_lock"
    /\ Acquire(t)
    /\ pc' = [pc EXCEPT ![t] = "disc_body"]
    /\ UNCHANGED <<config, apart, callbacks, history, pair, scope, dispatch, session, op, loopvars, wr, emitted, result, nresults>>

DisconnectReturns(t) ==
    /\ pc' = [pc EXCEPT ![t] = "done"]
    /\ result' = [result EXCEPT ![t] = Ok(<<>>)]
    /\ Release(t)

\* Faulty variant: the no-op branch drops the handle and dispatches on_disconnect.
DisconnectNotConnectedTearsDown(t) ==
    /\ pc[t] = "disc_body"
    /\ ~connected
    /\ client' = "None"
    /\ emitted' = [emitted EXCEPT ![t] = trigger_callbacks(t, "on_disconnect", <<>>)]
    /\ DisconnectReturns(t)
    /\ UNCHANGED <<config, apart, callbacks, history, pair, scope, dispatch, connected, last_error, mock_registers, op, loopvars, wr, nresults>>

\* if not self._connected: return
DisconnectNotConnected(t) ==
    /\ pc[t] = "disc_body"
    /\ ~connected
    /\ DisconnectReturns(t)
    /\ UNCHANGED <<config, apart, callbacks, history, pair, scope, dispatch, session, op, loopvars, wr, emitted, nresults>>

\* if self.mock_mode
DisconnectMock(t) ==
    /\ pc[t] = "disc_body"
    /\ connected
    /\ mock_mode
    /\ connected' = FALSE
    /\ emitted' = [emitted EXCEPT ![t] = trigger_callbacks(t, "on_disconnect", <<>>)]
    /\ DisconnectReturns(t)
    /\ UNCHANGED <<config, apart, callbacks, history, pair, scope, dispatch, client, last_error, mock_registers, op, loopvars, wr, nresults>>

\* self._client.close() returns
DisconnectClose(t) ==
    /\ pc[t] = "disc_body"
    /\ connected
    /\ ~mock_mode
    /\ connected' = FALSE
    /\ client' = "None"
    /\ emitted' = [emitted EXCEPT ![t] = trigger_callbacks(t, "on_disconnect", <<>>)]
    /\ DisconnectReturns(t)
    /\ UNCHANGED <<config, apart, callbacks, history, pair, scope, dispatch, last_error, mock_registers, op, loopvars, wr, nresults>>

\* Faulty variant: a failing close() leaves the session as it was.
DisconnectCloseFailKeepsState(t) ==
    /\ pc[t] = "disc_body"
    /\ connected
    /\ ~mock_mode
    /\ DisconnectReturns(t)
    /\ UNCHANGED <<config, apart, callbacks, history, pair, scope, dispatch, session, op, loopvars, wr, emitted, nresults>>

\* self._client.close() raises: the except branch forces the disconnection
\* and dispatches nothing.
DisconnectCloseFail(t) ==
    /\ pc[t] = "disc_body"
    /\ connected
    /\ ~mock_mode
    /\ connected' = FALSE
    /\ client' = "None"
    /\ DisconnectReturns(t)
    /\ UNCHANGED <<config, apart, callbacks, history, pair, scope, dispatch, last_error, mock_registers, op, loopvars, wr, emitted, nresults>>

\* ------------------------------------------------------------------ register operations
\* `with self._lock` of a register operation, entered after _ensure_connected
\* has returned.
DataAcquire(t) ==
    /\ pc[t] = "data_lock"
    /\ Acquire(t)
    /\ pc' = [pc EXCEPT ![t] = "data_body"]
    /\ UNCHANGED <<config, apart, callbacks, history, pair, scope, dispatch, session, op, loopvars, wr, emitted, result, nresults>>

\* The counts a read may ask for from address a: one for the single-register
\* variants, and no more than fits in the modelled address range.
Counts(o, a) == IF o \in SingleReadOps THEN {1} ELSE 1..(MaxAddr - a + 1)

\* _mock_read_registers: an address with no value gets a generated one
\* (gen[x] stands for random.randint(0, 65535)), which is stored; the values
\* of address..address+count-1 are returned in order.
mock_store_after_read(regs, address, count, gen) ==
    [x \in Addrs |->
        IF x \in address..(address + count - 1) /\ regs[x] = Unset
        THEN gen[x] ELSE regs[x]]

\* The draws of one read: random.randint is called for the addresses of
\* address..address+count-1 only, so a generator is fixed (0) elsewhere.
Gens(address, count) ==
    LET window == (address..(address + count - 1)) \cap Addrs
    IN {[x \in Addrs |-> IF x \in window THEN g[x] ELSE 0] : g \in [window -> Values]}

\* Faulty variant: every read draws fresh values.
mock_read_fresh(regs, address, count, gen) == [i \in 1..count |-> gen[address + i - 1]]

mock_read_registers(regs, address, count, gen) ==
    [i \in 1..count |-> mock_store_after_read(regs, address, count, gen)[address + i - 1]]

\* Faulty variant: the write empties the rest of the store.
mock_write_clears(regs, address, value) ==
    [x \in Addrs |-> IF x = address THEN value ELSE Unset]

\* Faulty variant: the write is dropped.
mock_write_dropped(regs, address, value) == regs

\* _mock_write_register
mock_write_register(regs, address, value) == [regs EXCEPT ![address] = value]

\* Faulty variant: the payload carries the values only.
data_received_values_only(address, values) == values

\* {'address': address, 'values': values}
data_received(address, values) == <<address>> \o values

\* read_holding_registers(a, n) or read_input_registers(a, n) in mock mode
MockReadWith(t, a, n, gen) ==
    /\ pc[t] = "data_body"
    /\ mock_mode
    /\ op[t] \in ReadOps
    /\ n \in Counts(op[t], a)
    /\ LET values == mock_read_registers(mock_registers, a, n, gen) IN
        /\ mock_registers' = mock_store_after_read(mock_registers, a, n, gen)
        /\ emitted' = [emitted EXCEPT ![t] =
                          trigger_callbacks(t, "on_data_received", data_received(a, values))]
        /\ result' = [result EXCEPT ![t] = Ok(values)]
        /\ history' = TrackRead(history, a, values)
    /\ Release(t)
    /\ pc' = [pc EXCEPT ![t] = "done"]
    /\ UNCHANGED <<config, apart, callbacks, pair, scope, dispatch, connected, client, last_error, op, loopvars, wr, nresults>>

MockRead(t) ==
    /\ pc[t] = "data_body"
    /\ \E a \in Addrs : \E n \in Counts(op[t], a) : \E gen \in Gens(a, n) :
        MockReadWith(t, a, n, gen)

\* write_register(a, v) in mock mode
MockWriteRegisterWith(t, a, v) ==
    /\ pc[t] = "data_body"
    /\ mock_mode
    /\ op[t] = "write_register"
    /\ mock_registers' = mock_write_register(mock_registers, a, v)
    /\ history' = TrackWrite(history, a, <<v>>)
    /\ result' = [result EXCEPT ![t] = Ok(<<>>)]
    /\ Release(t)
    /\ pc' = [pc EXCEPT ![t] = "done"]
    /\ UNCHANGED <<config, apart, callbacks, pair, scope, dispatch, connected, client, last_error, op, loopvars, wr, emitted, nresults>>

MockWriteRegister(t) == \E a \in Addrs : \E v \in Values : MockWriteRegisterWith(t, a, v)

\* write_registers in mock mode: for i, value in enumerate(values), one
\* store per iteration, all inside the operation's `with self._lock`.
MockWriteRegistersBegin(t) ==
    /\ pc[t] = "data_body"
    /\ mock_mode
    /\ op[t] = "write_registers"
    /\ \E a \in Addrs : \E vs \in Batches(a) :
        wr' = [wr EXCEPT ![t] = [address |-> a, values |-> vs, i |-> 0]]
    /\ pc' = [pc EXCEPT ![t] = "wr_loop"]
    /\ UNCHANGED <<config, apart, callbacks, history, pair, scope, dispatch, session, lock, op, loopvars, emitted, result, nresults>>

MockWriteRegistersStep(t) ==
    /\ pc[t] = "wr_loop"
    /\ wr[t].i < Len(wr[t].values)
    /\ mock_registers' = mock_write_register(mock_registers,
                             wr[t].address + wr[t].i, wr[t].values[wr[t].i + 1])
    /\ wr' = [wr EXCEPT ![t].i = @ + 1]
    /\ UNCHANGED <<config, apart, callbacks, history, pair, scope, dispatch, connected, client, last_error, lock, pc, op, loopvars,
                   emitted, result, nresults>>

MockWriteRegistersEnd(t) ==
    /\ pc[t] = "wr_loop"
    /\ wr[t].i = Len(wr[t].values)
    /\ wr' = [wr EXCEPT ![t] = NoWrite]
    /\ history' = TrackWrite(history, wr[t].address, wr[t].values)
    /\ result' = [result EXCEPT ![t] = Ok(<<>>)]
    /\ Release(t)
    /\ pc' = [pc EXCEPT ![t] = "done"]
    /\ UNCHANGED <<config, apart, callbacks, pair, scope, dispatch, session, op, loopvars, emitted, nresults>>

\* What a call on self._client can do.  With no handle the attribute lookup
\* on None raises AttributeError; a handle whose open failed carries no
\* request and the call raises; an open handle answers, answers with an
\* error response, or raises.
TransportOutcomes(c) ==
    CASE c = "None" -> {"Exception"}
      [] c = "closed" -> {"ModbusException", "Exception"}
      [] OTHER -> {"ok", "error_response", "ModbusException", "Exception"}

\* Faulty variant: a normal answer leaves self._last_error as it was.
RealOkKeepsError(t) ==
    /\ pc[t] = "data_body"
    /\ ~mock_mode
    /\ "ok" \in TransportOutcomes(client)
    /\ IF op[t] \in ReadOps
       THEN \E a \in Addrs : \E n \in Counts(op[t], a) : \E values \in [1..n -> Values] :
              /\ emitted' = [emitted EXCEPT ![t] =
                                trigger_callbacks(t, "on_data_received", <<a>> \o values)]
              /\ result' = [result EXCEPT ![t] = Ok(values)]
       ELSE /\ result' = [result EXCEPT ![t] = Ok(<<>>)]
            /\ UNCHANGED emitted
    /\ Release(t)
    /\ pc' = [pc EXCEPT ![t] = "done"]
    /\ UNCHANGED <<config, apart, callbacks, history, pair, scope, dispatch, session, op, loopvars, wr, nresults>>

\* The transport answers normally: the operation resets self._last_error.
\* The device answers a read of n registers from a with values, or
\* acknowledges a write (a, n and values play no part then).
RealOkWith(t, a, n, values) ==
    /\ pc[t] = "data_body"
    /\ ~mock_mode
    /\ "ok" \in TransportOutcomes(client)
    /\ last_error' = NoError
    /\ IF op[t] \in ReadOps
       THEN /\ n \in Counts(op[t], a)
            /\ values \in [1..n -> Values]
            /\ emitted' = [emitted EXCEPT ![t] =
                              trigger_callbacks(t, "on_data_received", data_received(a, values))]
            /\ result' = [result EXCEPT ![t] = Ok(values)]
       ELSE /\ result' = [result EXCEPT ![t] = Ok(<<>>)]
            /\ UNCHANGED emitted
    /\ Release(t)
    /\ pc' = [pc EXCEPT ![t] = "done"]
    /\ UNCHANGED <<config, apart, callbacks, history, pair, scope, dispatch, connected, client, mock_registers, op, loopvars, wr, nresults>>

RealOk(t) ==
    /\ pc[t] = "data_body"
    /\ IF op[t] \in ReadOps
       THEN \E a \in Addrs : \E n \in Counts(op[t], a) : \E values \in [1..n -> Values] :
               RealOkWith(t, a, n, values)
       ELSE RealOkWith(t, 0, 1, <<0>>)

\* except Exception: the record every unexpected failure ends with.
UnexpectedError == EquipmentError(TRUE, -3)

\* except ModbusException
ModbusError == EquipmentError(TRUE, -2)

\* except Exception as e: whatever record the try block had written is
\* overwritten.
except_Exception(written) == UnexpectedError

\* response.isError(): the record is written with the device's exception
\* code (-1 when the response has none) and SA32CommunicationError is raised
\* inside the try block; it is no ModbusException, so `except Exception`
\* catches it, overwrites the record and raises SA32CommunicationError again.
ErrorResponseRecord(code) == except_Exception(EquipmentError(TRUE, code))

\* The transport answers with an error response carrying exception code
\* `code` (-1: the response has no exception_code attribute).
RealErrorResponseWith(t, code) ==
    /\ pc[t] = "data_body"
    /\ ~mock_mode
    /\ "error_response" \in TransportOutcomes(client)
    /\ last_error' = ErrorResponseRecord(code)
    /\ emitted' = [emitted EXCEPT ![t] =
                      trigger_callbacks(t, "on_error", <<ErrorResponseRecord(code).code>>)]
    /\ result' = [result EXCEPT ![t] = SA32CommunicationError]
    /\ Release(t)
    /\ pc' = [pc EXCEPT ![t] = "done"]
    /\ UNCHANGED <<config, apart, callbacks, history, pair, scope, dispatch, connected, client, mock_registers, op, loopvars, wr, nresults>>

RealErrorResponse(t) == \E code \in ExcCodes \cup {-1} : RealErrorResponseWith(t, code)

RealModbusException(t) ==
    /\ pc[t] = "data_body"
    /\ ~mock_mode
    /\ "ModbusException" \in TransportOutcomes(client)
    /\ last_error' = ModbusError
    /\ emitted' = [emitted EXCEPT ![t] = trigger_callbacks(t, "on_error", <<ModbusError.code>>)]
    /\ result' = [result EXCEPT ![t] = SA32CommunicationError]
    /\ Release(t)
    /\ pc' = [pc EXCEPT ![t] = "done"]
    /\ UNCHANGED <<config, apart, callbacks, history, pair, scope, dispatch, connected, client, mock_registers, op, loopvars, wr, nresults>>

\* Faulty variant: the unexpected failure is recorded and raised, never dispatched.
RealExceptionSilent(t) ==
    /\ pc[t] = "data_body"
    /\ ~mock_mode
    /\ "Exception" \in TransportOutcomes(client)
    /\ last_error' = UnexpectedError
    /\ result' = [result EXCEPT ![t] = SA32CommunicationError]
    /\ Release(t)
    /\ pc' = [pc EXCEPT ![t] = "done"]
    /\ UNCHANGED <<config, apart, callbacks, history, pair, scope, dispatch, connected, client, mock_registers, op, loopvars, wr, emitted, nresults>>

\* except Exception as e
RealException(t) ==
    /\ pc[t] = "data_body"
    /\ ~mock_mode
    /\ "Exception" \in TransportOutcomes(client)
    /\ last_error' = UnexpectedError
    /\ emitted' = [emitted EXCEPT ![t] = trigger_callbacks(t, "on_error", <<UnexpectedError.code>>)]
    /\ result' = [result EXCEPT ![t] = SA32CommunicationError]
    /\ Release(t)
    /\ pc' = [pc EXCEPT ![t] = "done"]
    /\ UNCHANGED <<config, apart, callbacks, history, pair, scope, dispatch, connected, client, mock_registers, op, loopvars, wr, nresults>>

\* ------------------------------------------------------------------ housekeeping
\* The operations below take no lock and do not check the connection; each
\* is one access to the session.
MaxRegistered == 1
CallbackIds == {"cb1", "cb2"}

\* The number of entries of the registry.
TotalRegistered(cbs) ==
    Len(cbs["on_connect"]) + Len(cbs["on_disconnect"]) + Len(cbs["on_error"])
        + Len(cbs["on_data_received"])

Housekeeping(t, o) ==
    /\ pc[t] = "idle"
    /\ pc' = [pc EXCEPT ![t] = "done"]
    /\ op' = [op EXCEPT ![t] = o]
    /\ result' = [result EXCEPT ![t] = Ok(<<>>)]

\* Faulty variant: clear_error also forgets the connection.
ClearErrorDisconnects(t) ==
    /\ Housekeeping(t, "clear_error")
    /\ last_error' = NoError
    /\ connected' = FALSE
    /\ UNCHANGED <<config, apart, callbacks, history, pair, scope, dispatch, client, mock_registers, lock,
                   loopvars, wr, emitted, nresults>>

\* clear_error
ClearError(t) ==
    /\ Housekeeping(t, "clear_error")
    /\ last_error' = NoError
    /\ UNCHANGED <<config, apart, callbacks, history, pair, scope, dispatch, connected, client, mock_registers,
                   lock, loopvars, wr, emitted, nresults>>

\* Faulty variant: the value is stored whatever the mode.
set_mock_register_any_mode(mode, regs, address, value) == [regs EXCEPT ![address] = value]

\* if self.mock_mode: self._mock_registers[address] = value
\* else: self.logger.warning(...)
set_mock_register(mode, regs, address, value) ==
    IF mode THEN [regs EXCEPT ![address] = value] ELSE regs

\* set_mock_register(a, v)
SetMockRegisterWith(t, a, v) ==
    /\ Housekeeping(t, "set_mock_register")
    /\ mock_registers' = set_mock_register(mock_mode, mock_registers, a, v)
    /\ history' = IF mock_mode THEN TrackManual(TrackWrite(history, a, <<v>>), a) ELSE history
    /\ UNCHANGED <<config, apart, callbacks, pair, scope, dispatch, connected, client, last_error, lock,
                   loopvars, wr, emitted, nresults>>

SetMockRegister(t) == \E a \in Addrs : \E v \in Values : SetMockRegisterWith(t, a, v)

\* register_callback: appended to the event's list; an unknown event name
\* is only logged.
register_callback(cbs, event, callback) ==
    IF event \in DOMAIN cbs THEN [cbs EXCEPT ![event] = Append(@, callback)] ELSE cbs

\* Faulty variant: every entry equal to callback goes.
remove_all(list, x) == SelectSeq(list, LAMBDA y : y # x)

\* list.remove(callback): the first entry equal to callback goes.
remove(list, x) ==
    LET i == CHOOSE k \in 1..Len(list) :
                 list[k] = x /\ \A j \in 1..(k - 1) : list[j] # x
    IN SubSeq(list, 1, i - 1) \o SubSeq(list, i + 1, Len(list))

\* unregister_callback: nothing happens unless the callback is in the list.
unregister_callback(cbs, event, callback) ==
    IF event \in DOMAIN cbs /\ \E k \in 1..Len(cbs[event]) : cbs[event][k] = callback
    THEN [cbs EXCEPT ![event] = remove(@, callback)]
    ELSE cbs

\* The event names a caller passes: the four known ones and an unknown one.
EventArgs == EventNames \cup {"on_unknown"}

RegisterCallbackWith(t, e, cb) ==
    /\ Housekeeping(t, "register_callback")
    /\ callbacks' = register_callback(callbacks, e, cb)
    /\ UNCHANGED <<config, apart, history, pair, scope, dispatch, session, lock, loopvars, wr,
                   emitted, nresults>>

\* register_callback while the registry has fewer than n entries
RegisterCallbackUpTo(t, n) ==
    /\ TotalRegistered(callbacks) < n
    /\ \E e \in EventArgs : \E cb \in CallbackIds : RegisterCallbackWith(t, e, cb)

RegisterCallback(t) == RegisterCallbackUpTo(t, MaxRegistered)

UnregisterCallbackWith(t, e, cb) ==
    /\ Housekeeping(t, "unregister_callback")
    /\ callbacks' = unregister_callback(callbacks, e, cb)
    /\ UNCHANGED <<config, apart, history, pair, scope, dispatch, session, lock, loopvars, wr,
                   emitted, nresults>>

UnregisterCallback(t) ==
    \E e \in EventArgs : \E cb \in CallbackIds : UnregisterCallbackWith(t, e, cb)

\* ------------------------------------------------------------------ _trigger_callbacks
\* The events an operation has emitted are dispatched before it returns:
\* for callback in self._callbacks[event], one call per step, over the list
\* as it is at each iteration (the loop holds a position in the live list).
MaxListed == 2

Lists(n) == UNION {[1..k -> CallbackIds] : k \in 0..n}
Registries(n) == {r \in [EventNames -> Lists(n)] : TotalRegistered(r) <= n}

CallbackFailure == [kind |-> "CallbackError", val |-> <<>>]

Pending(t) == pc[t] = "done" /\ dispatch[t].delivered < Len(emitted[t])
Current(t) == emitted[t][dispatch[t].delivered + 1]

\* Faulty variant: the callback's exception leaves _trigger_callbacks.
callback_error_escapes == FALSE

\* try: callback(...) except Exception as e: self.logger.error(...)
callback_error_caught == TRUE

\* One iteration: the callback at the loop's position is called with the
\* event's data; it returns or raises.
Invoke(t) ==
    /\ Pending(t)
    /\ dispatch[t].index < Len(callbacks[Current(t).event])
    /\ \E outcome \in {"returns", "raises"} :
        LET call == [delivery |-> dispatch[t].delivered + 1,
                     event |-> Current(t).event,
                     callback |-> callbacks[Current(t).event][dispatch[t].index + 1],
                     data |-> Current(t).data,
                     outcome |-> outcome]
            escapes == outcome = "raises" /\ ~callback_error_caught
        IN /\ dispatch' = [dispatch EXCEPT ![t] =
                   [delivered |-> IF escapes THEN Len(emitted[t]) ELSE @.delivered,
                    index |-> IF escapes THEN 0 ELSE @.index + 1,
                    invoked |-> Append(@.invoked, call)]]
           /\ result' = [result EXCEPT ![t] = IF escapes THEN CallbackFailure ELSE @]
    /\ UNCHANGED <<config, apart, callbacks, history, pair, scope, session, lock, loopvars, pc, op,
                   wr, emitted, nresults>>

\* The loop is past the end of the list.
EndDispatch(t) ==
    /\ Pending(t)
    /\ dispatch[t].index >= Len(callbacks[Current(t).event])
    /\ dispatch' = [dispatch EXCEPT ![t].delivered = @ + 1, ![t].index = 0]
    /\ UNCHANGED <<config, apart, callbacks, history, pair, scope, session, lock, loopvars, pc, op,
                   wr, emitted, result, nresults>>

\* The operation returns to its caller once its events are dispatched.
DispatchReturn(t) ==
    /\ pc[t] = "done"
    /\ ~Pending(t)
    /\ Outside(t)
    /\ dispatch' = [dispatch EXCEPT ![t] = NoDispatch]
    /\ UNCHANGED <<config, apart, callbacks, history, pair, scope, session, lock, wr, nresults>>

\* ------------------------------------------------------------------ specification
Step(t) ==
    \/ Call(t)
    \/ Return(t)
    \/ EnsureConnectedOk(t)
    \/ EnsureConnectedReconnect(t)
    \/ EnsureConnectedFail(t)
    \/ Sleep(t)
    \/ ConnectAcquire(t)
    \/ ConnectAlready(t)
    \/ ConnectMock(t)
    \/ ConnectOpen(t)
    \/ ConnectOpenFail(t)
    \/ DisconnectAcquire(t)
    \/ DisconnectNotConnected(t)
    \/ DisconnectMock(t)
    \/ DisconnectClose(t)
    \/ DisconnectCloseFail(t)
    \/ DataAcquire(t)
    \/ MockRead(t)
    \/ MockWriteRegister(t)
    \/ MockWriteRegistersBegin(t)
    \/ MockWriteRegistersStep(t)
    \/ MockWriteRegistersEnd(t)
    \/ RealOk(t)
    \/ RealErrorResponse(t)
    \/ RealModbusException(t)
    \/ RealException(t)

\* Several threads use the session.
Next == \E t \in Threads : Step(t)

Spec == Init /\ [][Next]_vars

\* One thread uses the session: the operations run one after the other.
SingleCaller == {CHOOSE t \in Threads : TRUE}

NextSeq == \E t \in SingleCaller : Step(t)

SpecSeq == Init /\ [][NextSeq]_vars

\* One thread uses a session without auto-reconnect: the register
\* operations, connect and disconnect, and the housekeeping operations.
InitSession ==
    /\ Init
    /\ auto_reconnect = FALSE
    /\ max_reconnect_attempts = MaxReconnect
    /\ reconnect_delay = 0

SessionStep(t) ==
    \/ Call(t)
    \/ Return(t)
    \/ EnsureConnectedOk(t)
    \/ EnsureConnectedFail(t)
    \/ ConnectAcquire(t)
    \/ ConnectAlready(t)
    \/ ConnectMock(t)
    \/ ConnectOpen(t)
    \/ ConnectOpenFail(t)
    \/ DisconnectAcquire(t)
    \/ DisconnectNotConnected(t)
    \/ DisconnectMock(t)
    \/ DisconnectClose(t)
    \/ DisconnectCloseFail(t)
    \/ DataAcquire(t)
    \/ MockRead(t)
    \/ MockWriteRegister(t)
    \/ MockWriteRegistersBegin(t)
    \/ MockWriteRegistersStep(t)
    \/ MockWriteRegistersEnd(t)
    \/ RealOk(t)
    \/ RealErrorResponse(t)
    \/ RealModbusException(t)
    \/ RealException(t)
    \/ ClearError(t)
    \/ SetMockRegister(t)
    \/ RegisterCallback(t)
    \/ UnregisterCallback(t)

NextSession == \E t \in SingleCaller : SessionStep(t)

SpecSession == InitSession /\ [][NextSession]_vars

\* One thread uses a session without auto-reconnect, and what it writes to
\* and reads from the mock store is remembered.
InitTracked ==
    /\ mock_mode \in BOOLEAN
    /\ auto_reconnect = FALSE
    /\ max_reconnect_attempts = MaxReconnect
    /\ reconnect_delay = 0
    /\ connected = FALSE
    /\ client = "None"
    /\ last_error = NoError
    /\ mock_registers = EmptyStore
    /\ lockOwner = NoThread
    /\ lockDepth = 0
    /\ pc = [t \in Threads |-> "idle"]
    /\ op = [t \in Threads |-> "none"]
    /\ attempt = [t \in Threads |-> 0]
    /\ reconnRet = [t \in Threads |-> "none"]
    /\ ncalls = [t \in Threads |-> 0]
    /\ nsleeps = [t \in Threads |-> 0]
    /\ wr = [t \in Threads |-> NoWrite]
    /\ emitted = [t \in Threads |-> <<>>]
    /\ result = [t \in Threads |-> NoResult]
    /\ nresults = [t \in Threads |-> 0]
    /\ callbacks = NoCallbacks
    /\ history = NoHistory
    /\ drivers = [s \in Sessions |-> NewDriver(s)]
    /\ heap = [s \in Sessions |-> EmptyStore]
    /\ scope = [t \in Threads |-> "outside"]
    /\ dispatch = [t \in Threads |-> NoDispatch]
    /\ codec = NoCodec
    /\ instance = NoInstance
    /\ nesting = [t \in Threads |-> NoNesting]

\* The session is a mock one.
InitStore == InitTracked /\ mock_mode = TRUE

StoreStep(t) ==
    \/ Call(t)
    \/ Return(t)
    \/ EnsureConnectedOk(t)
    \/ EnsureConnectedFail(t)
    \/ ConnectAcquire(t)
    \/ ConnectAlready(t)
    \/ ConnectMock(t)
    \/ DisconnectAcquire(t)
    \/ DisconnectNotConnected(t)
    \/ DisconnectMock(t)
    \/ DataAcquire(t)
    \/ MockRead(t)
    \/ MockWriteRegister(t)
    \/ MockWriteRegistersBegin(t)
    \/ MockWriteRegistersStep(t)
    \/ MockWriteRegistersEnd(t)
    \/ SetMockRegister(t)

NextStore == \E t \in SingleCaller : StoreStep(t)

SpecStore == InitStore /\ [][NextStore]_vars

\* A mock or a real session on which set_mock_register is called among the
\* other operations.
SetMockStep(t) ==
    \/ Call(t)
    \/ Return(t)
    \/ EnsureConnectedOk(t)
    \/ EnsureConnectedFail(t)
    \/ ConnectAcquire(t)
    \/ ConnectAlready(t)
    \/ ConnectMock(t)
    \/ ConnectOpen(t)
    \/ ConnectOpenFail(t)
    \/ DisconnectAcquire(t)
    \/ DisconnectNotConnected(t)
    \/ DisconnectMock(t)
    \/ DisconnectClose(t)
    \/ DisconnectCloseFail(t)
    \/ DataAcquire(t)
    \/ MockRead(t)
    \/ MockWriteRegister(t)
    \/ MockWriteRegistersBegin(t)
    \/ MockWriteRegistersStep(t)
    \/ MockWriteRegistersEnd(t)
    \/ RealOk(t)
    \/ RealErrorResponse(t)
    \/ RealModbusException(t)
    \/ RealException(t)
    \/ SetMockRegister(t)

NextSetMock == \E t \in SingleCaller : SetMockStep(t)

SpecSetMock == InitTracked /\ [][NextSetMock]_vars

\* ------------------------------------------------------------------ two sessions
\* test_multiple_drivers: two mock sessions with the default configuration
\* (no auto-reconnect), used one operation at a time.  Each operation of
\* session d is one step and works on d's own fields and on the dict d's
\* _mock_registers refers to.
main == <<config, session, lock, loopvars, pc, op, wr, emitted, result, nresults,
          callbacks, history, scope, dispatch, apart>>

\* write_registers in mock mode: for i, value in enumerate(values):
\* self._mock_write_register(address + i, value)
RECURSIVE mock_write_registers(_, _, _, _)
mock_write_registers(regs, address, values, i) ==
    IF i = Len(values) THEN regs
    ELSE mock_write_registers(mock_write_register(regs, address + i, values[i + 1]),
                              address, values, i + 1)

\* connect() and disconnect() of a mock session
PairConnect(d) ==
    /\ drivers' = [drivers EXCEPT ![d].connected = TRUE]
    /\ UNCHANGED <<main, heap>>

PairDisconnect(d) ==
    /\ drivers' = [drivers EXCEPT ![d].connected = FALSE]
    /\ UNCHANGED <<main, heap>>

\* A register operation on a disconnected session: _ensure_connected
\* records the error and raises.
PairOperationFails(d) ==
    /\ ensure_connected(drivers[d].connected, FALSE) = "raise"
    /\ drivers' = [drivers EXCEPT ![d].last_error = EquipmentError(TRUE, -1)]
    /\ UNCHANGED <<main, heap>>

PairRead(d) ==
    /\ ensure_connected(drivers[d].connected, FALSE) = "connected"
    /\ \E a \in Addrs : \E n \in 1..(MaxAddr - a + 1) : \E gen \in Gens(a, n) :
        heap' = [heap EXCEPT ![drivers[d].mock_registers] =
                    mock_store_after_read(@, a, n, gen)]
    /\ UNCHANGED <<main, drivers>>

PairWriteRegister(d) ==
    /\ ensure_connected(drivers[d].connected, FALSE) = "connected"
    /\ \E a \in Addrs : \E v \in Values :
        heap' = [heap EXCEPT ![drivers[d].mock_registers] = mock_write_register(@, a, v)]
    /\ UNCHANGED <<main, drivers>>

PairWriteRegisters(d) ==
    /\ ensure_connected(drivers[d].connected, FALSE) = "connected"
    /\ \E a \in Addrs : \E vs \in Batches(a) :
        heap' = [heap EXCEPT ![drivers[d].mock_registers] =
                    mock_write_registers(@, a, vs, 0)]
    /\ UNCHANGED <<main, drivers>>

PairSetMockRegister(d) ==
    /\ \E a \in Addrs : \E v \in Values :
        heap' = [heap EXCEPT ![drivers[d].mock_registers] = mock_write_register(@, a, v)]
    /\ UNCHANGED <<main, drivers>>

\* Each session registers at most one callback in this scenario.
PairRegisterCallback(d) ==
    /\ drivers[d].callbacks = NoCallbacks
    /\ \E e \in EventNames : \E cb \in CallbackIds :
        drivers' = [drivers EXCEPT ![d].callbacks = register_callback(@, e, cb)]
    /\ UNCHANGED <<main, heap>>

PairStep(d) ==
    \/ PairConnect(d)
    \/ PairDisconnect(d)
    \/ PairOperationFails(d)
    \/ PairRead(d)
    \/ PairWriteRegister(d)
    \/ PairWriteRegisters(d)
    \/ PairSetMockRegister(d)
    \/ PairRegisterCallback(d)

InitPair ==
    /\ Init
    /\ mock_mode = TRUE
    /\ auto_reconnect = FALSE
    /\ max_reconnect_attempts = MaxReconnect
    /\ reconnect_delay = 0

NextPair == \E d \in Sessions : PairStep(d)

SpecPair == InitPair /\ [][NextPair]_vars

\* ------------------------------------------------------------------ with driver:
\* The with statement: __enter__ calls connect(); the body runs operations
\* of the session and ends normally or by raising; __exit__ calls
\* disconnect() and returns False, so what the body raised goes on to the
\* caller.  A connect() that raises in __enter__ leaves the statement
\* before the body, and __exit__ is not called.
\* __enter__: self.connect()
ScopeEnter(t) ==
    /\ scope[t] = "outside"
    /\ pc[t] = "idle" /\ op[t] = "none"
    /\ scope' = [scope EXCEPT ![t] = "enter"]
    /\ op' = [op EXCEPT ![t] = "connect"]
    /\ pc' = [pc EXCEPT ![t] = "conn_lock"]
    /\ UNCHANGED <<config, apart, callbacks, history, pair, dispatch, session, lock, loopvars, wr, emitted,
                   result, nresults>>

\* __enter__ returns self, or connect() raised
ScopeEntered(t) ==
    /\ scope[t] = "enter"
    /\ pc[t] = "done"
    /\ scope' = [scope EXCEPT ![t] = IF result[t].kind = "ok" THEN "body" ELSE "left_raised"]
    /\ Outside(t)
    /\ UNCHANGED <<config, apart, callbacks, history, pair, dispatch, session, lock, wr, nresults>>

\* The body calls an operation of the session and takes its result.
BodyCall(t) == scope[t] = "body" /\ Call(t)

BodyReturn(t) == scope[t] = "body" /\ result[t].kind = "ok" /\ Return(t)

\* __exit__: self.disconnect(), after the body ended normally
\* (raised = FALSE) or by raising.
ScopeExit(t, raised) ==
    /\ scope[t] = "body"
    /\ scope' = [scope EXCEPT ![t] = IF raised THEN "exit_raised" ELSE "exit_normal"]
    /\ op' = [op EXCEPT ![t] = "disconnect"]
    /\ pc' = [pc EXCEPT ![t] = "disc_lock"]
    /\ attempt' = [attempt EXCEPT ![t] = 0]
    /\ reconnRet' = [reconnRet EXCEPT ![t] = "none"]
    /\ ncalls' = [ncalls EXCEPT ![t] = 0]
    /\ nsleeps' = [nsleeps EXCEPT ![t] = 0]
    /\ emitted' = [emitted EXCEPT ![t] = <<>>]
    /\ result' = [result EXCEPT ![t] = NoResult]
    /\ UNCHANGED <<config, apart, callbacks, history, pair, dispatch, session, lock, wr, nresults>>

BodyEnds(t) == pc[t] = "idle" /\ ScopeExit(t, FALSE)

\* The body raises: an operation of the session raised and the body lets it
\* through, or the body raises something of its own.
BodyRaises(t) ==
    /\ \/ pc[t] = "idle"
       \/ pc[t] = "done" /\ result[t].kind # "ok"
    /\ ScopeExit(t, TRUE)

\* Faulty variant: __exit__ returns True.
exit_returns_true == TRUE

\* return False  # Ne supprime pas les exceptions
exit_returns == FALSE

\* The with statement after __exit__: the exception of the body is raised
\* again unless __exit__ returned a true value.
ScopeLeft(t) ==
    /\ scope[t] \in {"exit_normal", "exit_raised"}
    /\ pc[t] = "done"
    /\ scope' = [scope EXCEPT ![t] =
                    IF scope[t] = "exit_raised" /\ ~exit_returns
                    THEN "left_raised" ELSE "left_normal"]
    /\ pc' = [pc EXCEPT ![t] = "idle"]
    /\ UNCHANGED <<config, apart, callbacks, history, pair, dispatch, session, lock, loopvars, op, wr,
                   emitted, result, nresults>>

\* The caller goes on after the statement.
ScopeAfter(t) ==
    /\ scope[t] \in {"left_normal", "left_raised"}
    /\ scope' = [scope EXCEPT ![t] = "outside"]
    /\ Outside(t)
    /\ UNCHANGED <<config, apart, callbacks, history, pair, dispatch, session, lock, wr, nresults>>

ScopeStep(t) ==
    \/ ScopeEnter(t)
    \/ ScopeEntered(t)
    \/ BodyCall(t)
    \/ BodyReturn(t)
    \/ BodyEnds(t)
    \/ BodyRaises(t)
    \/ ScopeLeft(t)
    \/ ScopeAfter(t)
    \/ EnsureConnectedOk(t)
    \/ EnsureConnectedReconnect(t)
    \/ EnsureConnectedFail(t)
    \/ Sleep(t)
    \/ ConnectAcquire(t)
    \/ ConnectAlready(t)
    \/ ConnectMock(t)
    \/ ConnectOpen(t)
    \/ ConnectOpenFail(t)
    \/ DisconnectAcquire(t)
    \/ DisconnectNotConnected(t)
    \/ DisconnectMock(t)
    \/ DisconnectClose(t)
    \/ DisconnectCloseFail(t)
    \/ DataAcquire(t)
    \/ MockRead(t)
    \/ MockWriteRegister(t)
    \/ MockWriteRegistersBegin(t)
    \/ MockWriteRegistersStep(t)
    \/ MockWriteRegistersEnd(t)
    \/ RealOk(t)
    \/ RealErrorResponse(t)
    \/ RealModbusException(t)
    \/ RealException(t)

NextScope == \E t \in SingleCaller : ScopeStep(t)

SpecScope == Init /\ [][NextScope]_vars

\* ------------------------------------------------------------------ dispatch scenarios
\* A session without auto-reconnect on which callbacks have been registered;
\* one thread calls the operations and the registry operations, and every
\* event is dispatched callback by callback.
InitDispatch ==
    /\ mock_mode \in BOOLEAN
    /\ auto_reconnect = FALSE
    /\ max_reconnect_attempts = MaxReconnect
    /\ reconnect_delay = 0
    /\ connected = FALSE
    /\ client = "None"
    /\ last_error = NoError
    /\ mock_registers = EmptyStore
    /\ lockOwner = NoThread
    /\ lockDepth = 0
    /\ pc = [t \in Threads |-> "idle"]
    /\ op = [t \in Threads |-> "none"]
    /\ attempt = [t \in Threads |-> 0]
    /\ reconnRet = [t \in Threads |-> "none"]
    /\ ncalls = [t \in Threads |-> 0]
    /\ nsleeps = [t \in Threads |-> 0]
    /\ wr = [t \in Threads |-> NoWrite]
    /\ emitted = [t \in Threads |-> <<>>]
    /\ result = [t \in Threads |-> NoResult]
    /\ nresults = [t \in Threads |-> 0]
    /\ callbacks \in Registries(MaxListed)
    /\ history = Untracked
    /\ drivers = [s \in Sessions |-> NewDriver(s)]
    /\ heap = [s \in Sessions |-> EmptyStore]
    /\ scope = [t \in Threads |-> "outside"]
    /\ dispatch = [t \in Threads |-> NoDispatch]
    /\ codec = NoCodec
    /\ instance = NoInstance
    /\ nesting = [t \in Threads |-> NoNesting]

DispatchStep(t) ==
    \/ Call(t)
    \/ DispatchReturn(t)
    \/ Invoke(t)
    \/ EndDispatch(t)
    \/ EnsureConnectedOk(t)
    \/ EnsureConnectedFail(t)
    \/ ConnectAcquire(t)
    \/ ConnectAlready(t)
    \/ ConnectMock(t)
    \/ ConnectOpen(t)
    \/ ConnectOpenFail(t)
    \/ DisconnectAcquire(t)
    \/ DisconnectNotConnected(t)
    \/ DisconnectMock(t)
    \/ DisconnectClose(t)
    \/ DisconnectCloseFail(t)
    \/ DataAcquire(t)
    \/ MockRead(t)
    \/ MockWriteRegister(t)
    \/ MockWriteRegistersBegin(t)
    \/ MockWriteRegistersStep(t)
    \/ MockWriteRegistersEnd(t)
    \/ RealOk(t)
    \/ RealErrorResponse(t)
    \/ RealModbusException(t)
    \/ RealException(t)
    \/ RegisterCallbackUpTo(t, MaxListed + 1)
    \/ UnregisterCallback(t)

NextDispatch == \E t \in SingleCaller : DispatchStep(t)

SpecDispatch == InitDispatch /\ [][NextDispatch]_vars

\* A mock session whose caller dispatches while a second thread registers
\* and unregisters callbacks; register_callback and unregister_callback
\* take no lock.
InitDispatchRace == InitDispatch /\ mock_mode = TRUE

Registrar == {CHOOSE t \in Threads \ SingleCaller : TRUE}

RaceCallerStep(t) ==
    \/ Call(t)
    \/ DispatchReturn(t)
    \/ Invoke(t)
    \/ EndDispatch(t)
    \/ EnsureConnectedOk(t)
    \/ EnsureConnectedFail(t)
    \/ ConnectAcquire(t)
    \/ ConnectAlready(t)
    \/ ConnectMock(t)
    \/ DisconnectAcquire(t)
    \/ DisconnectNotConnected(t)
    \/ DisconnectMock(t)
    \/ DataAcquire(t)
    \/ MockRead(t)
    \/ MockWriteRegister(t)
    \/ MockWriteRegistersBegin(t)
    \/ MockWriteRegistersStep(t)
    \/ MockWriteRegistersEnd(t)

RegistrarStep(t) ==
    \/ RegisterCallbackUpTo(t, MaxListed)
    \/ UnregisterCallback(t)
    \/ Return(t)

NextDispatchRace ==
    \/ \E t \in SingleCaller : RaceCallerStep(t)
    \/ \E t \in Registrar : RegistrarStep(t)

SpecDispatchRace == InitDispatchRace /\ [][NextDispatchRace]_vars

\* ------------------------------------------------------------------ 32-bit floats
\* Endian.BIG, Endian.LITTLE
Endian == {">", "<"}

\* A finite float32 value, by the fields of its IEEE 754 binary32 pattern:
\* 1 sign bit, 8 exponent bits (255 marks inf and NaN), 23 mantissa bits.
MaxExponent == 254
MaxMantissa == 8388607
Exponents == {0, 1, 127, 133, MaxExponent}
Mantissas == {0, 1, 4194304, 7793017, MaxMantissa}
Floats == [sign : 0..1, exponent : Exponents, mantissa : Mantissas]

\* struct.pack('>f', value): the bytes of the pattern, most significant first;
\* '<f': least significant first.
pack_be(v) ==
    <<v.sign * 128 + v.exponent \div 2,
      (v.exponent % 2) * 128 + v.mantissa \div 65536,
      (v.mantissa \div 256) % 256,
      v.mantissa % 256>>
Reverse(b) == [i \in 1..Len(b) |-> b[Len(b) - i + 1]]
pack(fmt, v) == IF fmt = ">f" THEN pack_be(v) ELSE Reverse(pack_be(v))

\* struct.unpack('>f', payload)[0] and struct.unpack('<f', payload)[0]
unpack_be(b) ==
    [sign |-> b[1] \div 128,
     exponent |-> (b[1] % 128) * 2 + b[2] \div 128,
     mantissa |-> (b[2] % 128) * 65536 + b[3] * 256 + b[4]]
unpack(fmt, b) == IF fmt = ">f" THEN unpack_be(b) ELSE unpack_be(Reverse(b))

\* BinaryPayloadBuilder.add_32bit_float; wordorder is not kept by __init__
add_32bit_float(byteorder, value) ==
    IF byteorder = ">" THEN pack(">f", value) ELSE pack("<f", value)

\* Faulty variant: the two bytes of a register are read low byte first.
int_from_bytes_little(b) == b[2] * 256 + b[1]

\* int.from_bytes(self.payload[i:i+2], byteorder='big')
int_from_bytes(b) == b[1] * 256 + b[2]

\* BinaryPayloadBuilder.to_registers: one register per two bytes of payload
to_registers(payload) ==
    [k \in 1..(Len(payload) \div 2) |-> int_from_bytes(SubSeq(payload, 2 * k - 1, 2 * k))]

\* reg.to_bytes(2, byteorder='big')
to_bytes(reg) == <<reg \div 256, reg % 256>>

\* BinaryPayloadDecoder.fromRegisters: the registers' bytes joined
fromRegisters(registers) ==
    [k \in 1..(2 * Len(registers)) |-> to_bytes(registers[(k + 1) \div 2])[((k - 1) % 2) + 1]]

\* BinaryPayloadDecoder.decode_32bit_float
decode_32bit_float(byteorder, payload) ==
    IF byteorder = ">" THEN unpack(">f", SubSeq(payload, 1, 4))
    ELSE unpack("<f", SubSeq(payload, 1, 4))

\* The addresses at which two registers fit in the modelled range, and the
\* values random.randint(0, 65535) gives an address never written.
FloatAddrs == {a \in Addrs : a + 1 \in Addrs}
MaxRegister == 65535
\* Faulty variant: the generator draws from 0..65536.
GeneratedBeyond == {0, MaxRegister + 1}

\* random.randint(0, 65535): the ends of the range
Generated == {0, MaxRegister}

\* What a failed float operation raises.
Raised(kind) == [kind |-> kind, val |-> <<>>]

\* write_float(address, value, byte_order, word_order) on a mock session
\* without auto-reconnect, called by the only caller: the registers are
\* built, then write_registers checks the connection and stores them.
\* Without pymodbus BinaryPayloadBuilder is None and calling it raises.
WriteFloat(t) ==
    /\ pc[t] = "idle"
    /\ mock_mode
    /\ \E a \in FloatAddrs : \E v \in Floats : \E bo \in Endian : \E wo \in Endian :
        LET registers == to_registers(add_32bit_float(bo, v)) IN
        IF ~codec.PYMODBUS_AVAILABLE
        THEN /\ result' = [result EXCEPT ![t] = Raised("TypeError")]
             /\ UNCHANGED <<mock_registers, history, codec, last_error, emitted>>
        ELSE IF ensure_connected(connected, auto_reconnect) = "connected"
        THEN /\ mock_registers' = mock_write_registers(mock_registers, a, registers, 0)
             /\ history' = TrackWrite(history, a, registers)
             /\ codec' = [codec EXCEPT
                            !.write = [address |-> a, byte_order |-> bo, word_order |-> wo,
                                       value |-> v, registers |-> registers],
                            !.read = NoFloatOp]
             /\ result' = [result EXCEPT ![t] = Ok(<<>>)]
             /\ UNCHANGED <<last_error, emitted>>
        ELSE /\ ensure_connected(connected, auto_reconnect) = "raise"
             /\ last_error' = EquipmentError(TRUE, -1)
             /\ emitted' = [emitted EXCEPT ![t] = trigger_callbacks(t, "on_error", <<-1>>)]
             /\ result' = [result EXCEPT ![t] = SA32ConnectionError]
             /\ UNCHANGED <<mock_registers, history, codec>>
    /\ pc' = [pc EXCEPT ![t] = "done"]
    /\ op' = [op EXCEPT ![t] = "write_float"]
    /\ UNCHANGED <<config, instance, nesting, callbacks, pair, scope, dispatch, connected, client, lock,
                   loopvars, wr, nresults>>

\* read_float(address, HOLDING, byte_order, word_order): two registers are
\* read, `if not registers: return None`, else they are decoded.  Without
\* pymodbus BinaryPayloadDecoder is None and has no fromRegisters.
ReadFloat(t) ==
    /\ pc[t] = "idle"
    /\ mock_mode
    /\ \E a \in FloatAddrs : \E bo \in Endian : \E wo \in Endian : \E gen \in [Addrs -> Generated] :
        IF ensure_connected(connected, auto_reconnect) = "connected"
        THEN LET registers == mock_read_registers(mock_registers, a, 2, gen)
                 value == IF registers = <<>> THEN "None"
                          ELSE decode_32bit_float(bo, fromRegisters(registers))
             IN /\ mock_registers' = mock_store_after_read(mock_registers, a, 2, gen)
                /\ history' = TrackRead(history, a, registers)
                /\ emitted' = [emitted EXCEPT ![t] =
                                  trigger_callbacks(t, "on_data_received", data_received(a, registers))]
                /\ IF codec.PYMODBUS_AVAILABLE \/ registers = <<>>
                   THEN /\ codec' = [codec EXCEPT !.read =
                                       [address |-> a, byte_order |-> bo, word_order |-> wo,
                                        value |-> value, registers |-> registers]]
                        /\ result' = [result EXCEPT ![t] = Ok(<<value>>)]
                   ELSE /\ result' = [result EXCEPT ![t] = Raised("AttributeError")]
                        /\ UNCHANGED codec
                /\ UNCHANGED last_error
        ELSE /\ ensure_connected(connected, auto_reconnect) = "raise"
             /\ last_error' = EquipmentError(TRUE, -1)
             /\ emitted' = [emitted EXCEPT ![t] = trigger_callbacks(t, "on_error", <<-1>>)]
             /\ result' = [result EXCEPT ![t] = SA32ConnectionError]
             /\ UNCHANGED <<mock_registers, history, codec>>
    /\ pc' = [pc EXCEPT ![t] = "done"]
    /\ op' = [op EXCEPT ![t] = "read_float"]
    /\ UNCHANGED <<config, instance, nesting, callbacks, pair, scope, dispatch, connected, client, lock,
                   loopvars, wr, nresults>>

\* A mock session without auto-reconnect, with or without pymodbus installed.
InitCodec ==
    /\ mock_mode = TRUE
    /\ auto_reconnect = FALSE
    /\ max_reconnect_attempts = MaxReconnect
    /\ reconnect_delay = 0
    /\ connected = FALSE
    /\ client = "None"
    /\ last_error = NoError
    /\ mock_registers = EmptyStore
    /\ lockOwner = NoThread
    /\ lockDepth = 0
    /\ pc = [t \in Threads |-> "idle"]
    /\ op = [t \in Threads |-> "none"]
    /\ attempt = [t \in Threads |-> 0]
    /\ reconnRet = [t \in Threads |-> "none"]
    /\ ncalls = [t \in Threads |-> 0]
    /\ nsleeps = [t \in Threads |-> 0]
    /\ wr = [t \in Threads |-> NoWrite]
    /\ emitted = [t \in Threads |-> <<>>]
    /\ result = [t \in Threads |-> NoResult]
    /\ nresults = [t \in Threads |-> 0]
    /\ callbacks = NoCallbacks
    /\ history = Untracked
    /\ drivers = [s \in Sessions |-> NewDriver(s)]
    /\ heap = [s \in Sessions |-> EmptyStore]
    /\ scope = [t \in Threads |-> "outside"]
    /\ dispatch = [t \in Threads |-> NoDispatch]
    /\ \E available \in BOOLEAN :
        codec = [PYMODBUS_AVAILABLE |-> available, write |-> NoFloatOp, read |-> NoFloatOp]
    /\ instance = NoInstance
    /\ nesting = [t \in Threads |-> NoNesting]

CodecStep(t) ==
    \/ WriteFloat(t)
    \/ ReadFloat(t)
    \/ Return(t)
    \/ ConnectAcquire(t)
    \/ ConnectAlready(t)
    \/ ConnectMock(t)
    \/ DisconnectAcquire(t)
    \/ DisconnectNotConnected(t)
    \/ DisconnectMock(t)
    \/ \E o \in {"connect", "disconnect"} : CallOp(t, o)

NextCodec == \E t \in SingleCaller : CodecStep(t)

SpecCodec == InitCodec /\ [][NextCodec]_vars

\* ------------------------------------------------------------------ construction
\* The arguments a caller passes to SA32Driver(...): valid ones, the ones
\* next to the limits, and the invalid ones of TestInitialization.
Protocols == {"TCP", "RTU", "tcp", "INVALID"}
SlaveIds == {0, 1, 247, 248, 300}
Baudrates == {1111, 1200, 9600, 115200}
Bytesizes == {7, 8, 9}
Parities == {"N", "E", "O", "n", "X"}
Stopbits == {1, 2, 3}
\* timeout, reconnect_delay (seconds) and max_reconnect_attempts, among them
\* the defaults' neighbours 0 and -1.
Timeouts == {0, 5}
ReconnectDelays == {-1, 5}
ReconnectBudgets == {-1, 0, 3}
Arguments ==
    [protocol : Protocols, slave_id : SlaveIds, baudrate : Baudrates, bytesize : Bytesizes,
     parity : Parities, stopbits : Stopbits, mock_mode : BOOLEAN,
     timeout : Timeouts, reconnect_delay : ReconnectDelays,
     max_reconnect_attempts : ReconnectBudgets]

\* str.upper() on the strings above
upper(str) == CASE str = "tcp" -> "TCP" [] str = "n" -> "N" [] OTHER -> str

valid_baudrates == {1200, 2400, 4800, 9600, 19200, 38400, 57600, 115200}

\* Faulty variant: slave id 0 is let through.
slave_id_from_zero(slave_id) == 0 <= slave_id /\ slave_id <= 247

\* 1 <= slave_id <= 247
slave_id_in_range(slave_id) == 1 <= slave_id /\ slave_id <= 247

\* _validate_config: the message of the first check that fails, or "valid"
validate_config(protocol, slave_id, baudrate, bytesize, parity, stopbits) ==
    IF upper(protocol) \notin {"TCP", "RTU"} THEN "Protocole invalide"
    ELSE IF ~slave_id_in_range(slave_id) THEN "Slave ID invalide"
    ELSE IF baudrate \notin valid_baudrates THEN "Baudrate invalide"
    ELSE IF bytesize \notin {7, 8} THEN "Bytesize invalide"
    ELSE IF upper(parity) \notin {"N", "E", "O"} THEN "Parité invalide"
    ELSE IF stopbits \notin {1, 2} THEN "Stop bits invalide"
    ELSE "valid"

\* __init__: pymodbus is asked for unless the session is a mock one, the
\* arguments are validated, then the fields are set.
Construct ==
    /\ instance.stage = "called"
    /\ LET a == instance.args
           checked == validate_config(a.protocol, a.slave_id, a.baudrate, a.bytesize,
                                      a.parity, a.stopbits)
       IN instance' =
            IF ~instance.PYMODBUS_AVAILABLE /\ ~a.mock_mode
            THEN [instance EXCEPT !.stage = "raised", !.raised = "ImportError"]
            ELSE IF checked # "valid"
            THEN [instance EXCEPT !.stage = "raised", !.raised = "SA32ConfigurationError",
                                  !.message = checked]
            ELSE [instance EXCEPT !.stage = "constructed",
                                  !.driver = [protocol |-> upper(a.protocol),
                                              slave_id |-> a.slave_id,
                                              timeout |-> a.timeout,
                                              reconnect_delay |-> a.reconnect_delay,
                                              max_reconnect_attempts |->
                                                  a.max_reconnect_attempts,
                                              mock_mode |-> a.mock_mode,
                                              client |-> "None",
                                              connected |-> FALSE,
                                              callbacks |-> NoCallbacks,
                                              mock_registers |-> EmptyStore,
                                              last_error |-> NoError]]
    /\ UNCHANGED <<config, codec, nesting, callbacks, history, pair, scope, dispatch, session, lock,
                   loopvars, pc, op, wr, emitted, result, nresults>>

\* No session exists yet; the constructor is about to run with some
\* arguments, with or without pymodbus installed.
InitConstruct ==
    /\ mock_mode = FALSE
    /\ auto_reconnect = FALSE
    /\ max_reconnect_attempts = 0
    /\ reconnect_delay = 0
    /\ connected = FALSE
    /\ client = "None"
    /\ last_error = NoError
    /\ mock_registers = EmptyStore
    /\ lockOwner = NoThread
    /\ lockDepth = 0
    /\ pc = [t \in Threads |-> "idle"]
    /\ op = [t \in Threads |-> "none"]
    /\ attempt = [t \in Threads |-> 0]
    /\ reconnRet = [t \in Threads |-> "none"]
    /\ ncalls = [t \in Threads |-> 0]
    /\ nsleeps = [t \in Threads |-> 0]
    /\ wr = [t \in Threads |-> NoWrite]
    /\ emitted = [t \in Threads |-> <<>>]
    /\ result = [t \in Threads |-> NoResult]
    /\ nresults = [t \in Threads |-> 0]
    /\ callbacks = NoCallbacks
    /\ history = Untracked
    /\ drivers = [s \in Sessions |-> NewDriver(s)]
    /\ heap = [s \in Sessions |-> EmptyStore]
    /\ scope = [t \in Threads |-> "outside"]
    /\ dispatch = [t \in Threads |-> NoDispatch]
    /\ codec = NoCodec
    /\ \E a \in Arguments : \E available \in BOOLEAN :
        instance = [stage |-> "called", args |-> a, PYMODBUS_AVAILABLE |-> available,
                    raised |-> "none", message |-> "", driver |-> "none"]
    /\ nesting = [t \in Threads |-> NoNesting]

NextConstruct == Construct

SpecConstruct == InitConstruct /\ [][NextConstruct]_vars

\* ------------------------------------------------------------------ worker scenario
\* TestThreadSafety: a mock session that has been connected, and Threads
\* workers that each perform MaxOps register operations and collect the
\* results; a worker stops at the first operation that raises.
MaxOps == 2

DEFAULT_MAX_RECONNECT_ATTEMPTS == 3

InitWorkers ==
    /\ mock_mode = TRUE
    /\ auto_reconnect = FALSE
    /\ max_reconnect_attempts = DEFAULT_MAX_RECONNECT_ATTEMPTS
    /\ reconnect_delay = 0
    /\ connected = TRUE
    /\ client = "None"
    /\ last_error = NoError
    /\ mock_registers = EmptyStore
    /\ lockOwner = NoThread
    /\ lockDepth = 0
    /\ pc = [t \in Threads |-> "idle"]
    /\ op = [t \in Threads |-> "none"]
    /\ attempt = [t \in Threads |-> 0]
    /\ reconnRet = [t \in Threads |-> "none"]
    /\ ncalls = [t \in Threads |-> 0]
    /\ nsleeps = [t \in Threads |-> 0]
    /\ wr = [t \in Threads |-> NoWrite]
    /\ emitted = [t \in Threads |-> <<>>]
    /\ result = [t \in Threads |-> NoResult]
    /\ nresults = [t \in Threads |-> 0]
    /\ callbacks = NoCallbacks
    /\ history = Untracked
    /\ drivers = [s \in Sessions |-> NewDriver(s)]
    /\ heap = [s \in Sessions |-> EmptyStore]
    /\ scope = [t \in Threads |-> "outside"]
    /\ dispatch = [t \in Threads |-> NoDispatch]
    /\ codec = NoCodec
    /\ instance = NoInstance
    /\ nesting = [t \in Threads |-> NoNesting]

WorkerCall(t) ==
    /\ pc[t] = "idle"
    /\ nresults[t] < MaxOps
    /\ \E o \in RegisterOps : op' = [op EXCEPT ![t] = o]
    /\ pc' = [pc EXCEPT ![t] = "ensure"]
    /\ UNCHANGED <<config, apart, callbacks, history, pair, scope, dispatch, session, lock, loopvars, wr, emitted, result, nresults>>

WorkerReturn(t) ==
    /\ pc[t] = "done"
    /\ pc' = [pc EXCEPT ![t] = IF result[t].kind = "ok" THEN "idle" ELSE "aborted"]
    /\ nresults' = [nresults EXCEPT ![t] = IF result[t].kind = "ok" THEN @ + 1 ELSE @]
    /\ op' = [op EXCEPT ![t] = "none"]
    /\ emitted' = [emitted EXCEPT ![t] = <<>>]
    /\ result' = [result EXCEPT ![t] = NoResult]
    /\ UNCHANGED <<config, apart, callbacks, history, pair, scope, dispatch, session, lock, loopvars, wr>>

WorkerStep(t) ==
    \/ WorkerCall(t)
    \/ WorkerReturn(t)
    \/ EnsureConnectedOk(t)
    \/ DataAcquire(t)
    \/ MockRead(t)
    \/ MockWriteRegister(t)
    \/ MockWriteRegistersBegin(t)
    \/ MockWriteRegistersStep(t)
    \/ MockWriteRegistersEnd(t)

NextWorkers == \E t \in Threads : WorkerStep(t)

\* Every thread that can take a step is eventually scheduled.
SpecWorkers == InitWorkers /\ [][NextWorkers]_vars /\ \A t \in Threads : WF_vars(WorkerStep(t))

\* ------------------------------------------------------------------ properties
\* Thread t takes the step (each step of a thread moves its pc or its write loop).
Moved(t) == pc'[t] # pc[t] \/ wr'[t] # wr[t]

\* C1: on a Disconnected session with auto-reconnect disabled, a register
\* operation (any read or write variant) that runs its connection check
\* fails with ConnectionError, leaves the session Disconnected and leaves
\* LastError present with a non-zero code.
C1_DisconnectedOperationFails ==
    [][\A t \in Threads :
        (pc[t] = "ensure" /\ op[t] \in RegisterOps /\ ~connected /\ ~auto_reconnect /\ Moved(t))
        => /\ pc'[t] = "done"
           /\ result'[t] = SA32ConnectionError
           /\ ~connected'
           /\ last_error'.status /\ last_error'.code # 0]_vars

C1_Witness ==
    \E t \in Threads :
        /\ pc[t] = "done" /\ op[t] \in RegisterOps /\ ~auto_reconnect
        /\ result[t] = SA32ConnectionError
        /\ ~connected /\ last_error.status /\ last_error.code = -1

\* C2: on a non-mock session with auto-reconnect enabled, a register
\* operation whose reconnect sequence is exhausted (every attempt failed, or
\* max_reconnect_attempts = 0) ends with ConnectionError.
C2_ExhaustedReconnectRaisesConnectionError ==
    \A t \in Threads :
        (pc[t] = "done" /\ op[t] \in RegisterOps /\ ~mock_mode /\ reconnRet[t] = "false")
        => result[t] = SA32ConnectionError

\* C3: a reconnect sequence never calls connect() more than
\* max_reconnect_attempts times; one in which every attempt failed has called
\* it exactly max_reconnect_attempts times and has slept after each failed
\* attempt but the last: max_reconnect_attempts - 1 times (no attempt, no sleep).
C3_AttemptsAndDelays ==
    \A t \in Threads :
        /\ ncalls[t] <= max_reconnect_attempts
        /\ reconnRet[t] = "false" =>
            /\ ncalls[t] = max_reconnect_attempts
            /\ nsleeps[t] = IF max_reconnect_attempts = 0 THEN 0
                            ELSE max_reconnect_attempts - 1

C3_Witness ==
    \E t \in Threads :
        /\ reconnRet[t] = "false" /\ ~mock_mode
        /\ max_reconnect_attempts = MaxReconnect
        /\ ncalls[t] = MaxReconnect /\ nsleeps[t] = MaxReconnect - 1
        /\ Len(emitted[t]) >= MaxReconnect

\* C4: no register operation gets a successful result from a data access
\* that runs while the session is Disconnected.
C4_NoSuccessWhileDisconnected ==
    [][\A t \in Threads :
        (op[t] \in RegisterOps /\ result[t].kind = "none" /\ result'[t].kind = "ok")
        => connected]_vars

\* C5: from its connection check to the end of its data access a register
\* operation holds the lock, so no step of another thread changes the
\* connection state, the transport handle or the register store meanwhile.
InCheckedRegion(t) ==
    /\ op[t] \in RegisterOps
    /\ pc[t] \in {"conn_lock", "conn_body", "sleep", "data_lock", "data_body", "wr_loop"}

C5_LockSpansCheckAndAccess ==
    [][\A t \in Threads :
        (InCheckedRegion(t) /\ ~Moved(t))
        => UNCHANGED <<connected, client, mock_registers>>]_vars

\* C6: while a write_registers batch is partly applied (some, not all, of
\* its values stored) no other thread is inside a register operation's data
\* access, so no read sees a mix of the batch and what was there before.
MidBatch(t) == pc[t] = "wr_loop" /\ 0 < wr[t].i /\ wr[t].i < Len(wr[t].values)

C6_WriteRegistersAtomic ==
    \A t \in Threads : \A u \in Threads \ {t} :
        MidBatch(t) => pc[u] \notin {"data_body", "wr_loop"}

C6_Witness ==
    \E t \in Threads : \E u \in Threads \ {t} :
        /\ mock_mode /\ connected
        /\ MidBatch(t)
        /\ pc[u] = "data_lock" /\ op[u] = "read_holding_registers"

\* C7: on a connected mock session with no disconnect, no operation of a
\* worker raises, and every worker eventually has its MaxOps results: the
\* workers terminate with NumThreads * MaxOps results in all.
AllResultsIn == \A t \in Threads : pc[t] = "idle" /\ nresults[t] = MaxOps

C7_WorkersComplete ==
    /\ [](\A t \in Threads : pc[t] # "aborted" /\ (pc[t] = "done" => result[t].kind = "ok"))
    /\ <>[]AllResultsIn

C7_Witness == AllResultsIn

\* C8: connect() on a Connected session returns True, leaves the session
\* Connected, builds no transport, leaves LastError alone and dispatches
\* nothing.
C8_ConnectIdempotent ==
    [][\A t \in Threads :
        (pc[t] = "conn_body" /\ connected /\ Moved(t))
        => /\ connected' /\ client' = client /\ last_error' = last_error
           /\ emitted'[t] = emitted[t]
           /\ IF op[t] = "connect"
              THEN pc'[t] = "done" /\ result'[t] = Ok(<<>>)
              ELSE pc'[t] = "data_lock" /\ reconnRet'[t] = "true"]_vars

C8_Witness ==
    \E t \in Threads :
        /\ pc[t] = "done" /\ op[t] = "connect" /\ result[t] = Ok(<<>>)
        /\ emitted[t] = <<>> /\ connected

\* C9: disconnect() on a Disconnected session returns without raising and
\* changes nothing: state, transport handle, LastError, register store; it
\* dispatches nothing.
C9_DisconnectNoOp ==
    [][\A t \in Threads :
        (pc[t] = "disc_body" /\ ~connected /\ Moved(t))
        => /\ pc'[t] = "done" /\ result'[t] = Ok(<<>>)
           /\ UNCHANGED <<connected, client, last_error, mock_registers>>
           /\ emitted'[t] = emitted[t]]_vars

C9_Witness ==
    \E t \in Threads :
        /\ pc[t] = "done" /\ op[t] = "disconnect" /\ result[t] = Ok(<<>>)
        /\ mock_mode /\ emitted[t] = <<>> /\ ~connected

\* C10: disconnect() on a Connected session ends Disconnected with no
\* transport handle, whether close() returns or raises, and does not raise.
C10_DisconnectForcesDisconnected ==
    [][\A t \in Threads :
        (pc[t] = "disc_body" /\ connected /\ Moved(t))
        => /\ ~connected' /\ client' = "None"
           /\ pc'[t] = "done" /\ result'[t] = Ok(<<>>)]_vars

C10_Witness ==
    \E t \in Threads :
        /\ pc[t] = "done" /\ op[t] = "disconnect" /\ result[t] = Ok(<<>>)
        /\ ~mock_mode /\ emitted[t] = <<Event("on_disconnect", <<>>)>>
        /\ ~connected /\ client = "None"

\* ------------------------------------------------------------------ C11
\* C11: every disconnect() that takes the session from Connected to
\* Disconnected dispatches on_disconnect exactly once, after the state
\* change, also when closing the transport fails.
C11_DisconnectDispatchesOnce ==
    [][\A t \in Threads :
        (pc[t] = "disc_body" /\ connected /\ Moved(t))
        => /\ ~connected'
           /\ emitted'[t] = Append(emitted[t], Event("on_disconnect", <<>>))]_vars

\* ------------------------------------------------------------------ C12
\* C12: connect() on a disconnected non-mock session whose transport cannot
\* be opened leaves the session Disconnected, overwrites LastError with a
\* present error of non-zero code, dispatches on_error exactly once with that
\* record and no on_connect, and raises SA32ConnectionError; when the open
\* succeeds the session is Connected, LastError is cleared and on_connect is
\* dispatched.
C12_ConnectOutcome ==
    [][\A t \in Threads :
        (pc[t] = "conn_body" /\ op[t] = "connect" /\ ~connected /\ ~mock_mode /\ Moved(t))
        => \/ /\ ~connected'
              /\ last_error'.status /\ last_error'.code # 0
              /\ emitted'[t] = Append(emitted[t], Event("on_error", <<last_error'.code>>))
              /\ result'[t] = SA32ConnectionError
           \/ /\ connected'
              /\ last_error' = NoError
              /\ emitted'[t] = Append(emitted[t], Event("on_connect", <<>>))
              /\ result'[t] = Ok(<<>>)]_vars

C12_Witness ==
    \E t \in Threads :
        /\ pc[t] = "done" /\ op[t] = "connect" /\ ~mock_mode
        /\ result[t] = SA32ConnectionError
        /\ ~connected
        /\ last_error = EquipmentError(TRUE, -1)
        /\ emitted[t] = <<Event("on_error", <<-1>>)>>

\* ------------------------------------------------------------------ C13
\* C13: in every reachable state of a non-mock session, the session is
\* Connected exactly when a transport handle is present (the single
\* self._client slot holds at most one handle).
C13_ConnectedIffHandle ==
    ~mock_mode => (connected <=> client # "None")

\* ------------------------------------------------------------------ C14
\* A connect() call or a register operation fails in this step.
Fails(t) ==
    \/ result[t].kind = "none" /\ result'[t].kind \in {"ConnectionError", "CommunicationError"}
    \/ pc[t] = "conn_body" /\ ~connected /\ ~connected' /\ Moved(t)

\* C14: every failing connect or register operation overwrites LastError,
\* dispatches on_error exactly once with that same record, and then raises;
\* no failure skips the LastError update or the event.
C14_FailureRecordsThenDispatches ==
    [][\A t \in Threads :
        Fails(t)
        => /\ last_error'.status
           /\ emitted'[t] = Append(emitted[t], Event("on_error", <<last_error'.code>>))]_vars

C14_Witness ==
    \E t \in Threads :
        /\ pc[t] = "done" /\ op[t] \in RegisterOps
        /\ result[t] = SA32CommunicationError
        /\ last_error = UnexpectedError
        /\ Len(emitted[t]) > 0
        /\ emitted[t][Len(emitted[t])] = Event("on_error", <<UnexpectedError.code>>)

\* ------------------------------------------------------------------ C15
\* C15: when the device answers a read or write with an error response, the
\* operation raises SA32CommunicationError and LastError is present with the
\* code the device reported.
C15_ErrorResponseKeepsDeviceCode ==
    [][\A t \in Threads : \A code \in ExcCodes :
        RealErrorResponseWith(t, code)
        => /\ result'[t] = SA32CommunicationError
           /\ last_error' = EquipmentError(TRUE, code)]_vars

\* ------------------------------------------------------------------ C16
\* A register operation returns normally in this step.
Succeeds(t) ==
    /\ op[t] \in RegisterOps
    /\ result[t].kind = "none"
    /\ result'[t].kind = "ok"

\* C16 (as stated): a successful register read or write leaves LastError
\* unchanged, in mock and in non-mock mode.
C16_SuccessKeepsLastError ==
    [][\A t \in Threads : Succeeds(t) => last_error' = last_error]_vars

\* C16 (amended): a successful register read or write leaves LastError
\* unchanged in mock mode and resets it to no error in non-mock mode.
C16_SuccessKeepsOrClearsLastError ==
    [][\A t \in Threads :
        Succeeds(t)
        => last_error' = IF mock_mode THEN last_error ELSE NoError]_vars

C16_Witness ==
    \E t \in Threads :
        /\ pc[t] = "done" /\ op[t] \in RegisterOps /\ mock_mode
        /\ result[t].kind = "ok"
        /\ last_error = EquipmentError(TRUE, -1)

\* ------------------------------------------------------------------ C17
\* C17: clear_error() resets LastError to present=false, code=0 whatever it
\* held, and changes nothing else: not the connection state, the transport
\* handle, the register store or the observer lists.
C17_ClearErrorResetsOnlyLastError ==
    [][\A t \in Threads :
        (pc[t] = "idle" /\ op'[t] = "clear_error")
        => /\ last_error' = NoError
           /\ UNCHANGED <<connected, client, mock_registers, callbacks, config, lock>>]_vars

C17_Witness ==
    \E t \in Threads :
        /\ pc[t] = "done" /\ op[t] = "clear_error"
        /\ last_error = NoError
        /\ connected /\ client = "open"
        /\ callbacks # NoCallbacks

\* ------------------------------------------------------------------ C18
\* A mock read returns in this step; the address it was asked for is the
\* head of the on_data_received payload, the values are its result.
ReadReturns(t) ==
    /\ pc[t] = "data_body" /\ op[t] \in ReadOps /\ mock_mode
    /\ pc'[t] = "done" /\ result'[t].kind = "ok"

ReadAddress(t) == emitted[t][Len(emitted[t])].data[1]

\* C18: on a connected mock session, a read that follows write_registers(addr,
\* vs) or write_register(addr, v), with no write to those addresses in
\* between, returns exactly the written values: every value a read returns
\* for an address that has been written is the value of the latest write.
C18_ReadReturnsLatestWrite ==
    [][\A t \in Threads :
        ReadReturns(t)
        => \A i \in 1..Len(result'[t].val) :
              LET x == ReadAddress(t)' + i - 1 IN
              history.written[x] # Unset => result'[t].val[i] = history.written[x]]_vars

C18_Witness ==
    \E t \in Threads :
        /\ pc[t] = "done" /\ op[t] = "read_holding_registers" /\ connected
        /\ Len(result[t].val) > 1
        /\ result[t].val[1] # result[t].val[2]
        /\ \A i \in 1..Len(result[t].val) :
              history.written[ReadAddress(t) + i - 1] = result[t].val[i]

\* ------------------------------------------------------------------ C19
\* C19: the first mock read of a never-written address generates one value
\* and stores it; every later read of the address (holding or input, single
\* or multi-register) returns that same value until the address is written.
C19_MockReadIdempotent ==
    [][\A t \in Threads :
        ReadReturns(t)
        => \A i \in 1..Len(result'[t].val) :
              LET x == ReadAddress(t)' + i - 1 IN
              /\ result'[t].val[i] \in Values
              /\ mock_registers'[x] = result'[t].val[i]
              /\ history.read[x] # Unset => result'[t].val[i] = history.read[x]]_vars

C19_Witness ==
    \E t \in Threads :
        /\ pc[t] = "done" /\ op[t] \in ReadOps
        /\ Len(result[t].val) > 1
        /\ \A i \in 1..Len(result[t].val) :
              LET x == ReadAddress(t) + i - 1 IN
              /\ history.written[x] = Unset
              /\ history.read[x] = result[t].val[i]
              /\ mock_registers[x] = result[t].val[i]

\* ------------------------------------------------------------------ C20
\* What a session holds: its connection state, LastError, observer lists
\* and the content of its register store.
View(d) ==
    [connected |-> drivers[d].connected, last_error |-> drivers[d].last_error,
     callbacks |-> drivers[d].callbacks, registers |-> heap[drivers[d].mock_registers]]

\* C20: for two mock sessions, whatever writes, reads and set_mock_register
\* calls (and connects, disconnects, failing operations, registrations) one
\* session performs, the other session's register store, connection state,
\* LastError and observer lists stay as they were.
C20_MockSessionsIsolated ==
    [][\A d \in Sessions : \A other \in Sessions \ {d} :
        PairStep(d) => View(other)' = View(other)]_vars

C20_Witness ==
    \E d \in Sessions : \E other \in Sessions \ {d} : \E a \in Addrs :
        /\ View(d).registers[a] # Unset
        /\ View(other).registers[a] # Unset
        /\ View(d).registers[a] # View(other).registers[a]
        /\ View(d).connected /\ ~View(other).connected
        /\ View(other).last_error.status /\ ~View(d).last_error.status
        /\ View(other).callbacks # NoCallbacks /\ View(d).callbacks = NoCallbacks

\* ------------------------------------------------------------------ C21
\* C21: `with driver:` connects on entry and disconnects on exit on every
\* exit path: when the statement is left, normally or by a failure raised
\* in its body, the session is Disconnected, and a failure raised in the
\* body reaches the caller.
C21_ScopeDisconnectsAndPropagates ==
    [][\A t \in Threads :
        /\ (scope[t] = "enter" /\ scope'[t] = "body") => connected'
        /\ (scope[t] = "exit_normal" /\ scope'[t] # scope[t])
              => ~connected' /\ scope'[t] = "left_normal"
        /\ (scope[t] = "exit_raised" /\ scope'[t] # scope[t])
              => ~connected' /\ scope'[t] = "left_raised"]_vars

C21_Witness ==
    \E t \in Threads :
        /\ scope[t] = "left_raised" /\ ~connected /\ ~mock_mode
        /\ op[t] = "disconnect"
        /\ emitted[t] = <<Event("on_disconnect", <<>>)>>


\* The callbacks _trigger_callbacks has called for the i-th event of the
\* thread's operation, in the order of the calls.
CallsOf(t, i) ==
    LET calls == SelectSeq(dispatch[t].invoked, LAMBDA c : c.delivery = i)
    IN [k \in 1..Len(calls) |-> calls[k].callback]

Dispatched(t) == pc[t] = "done" /\ ~Pending(t)

\* C22: dispatch is fault-isolated. When the events of an operation have been
\* dispatched, every callback of each event's list has been called, whether
\* or not an earlier one raised, and a call of a callback, raising or not,
\* leaves the operation's result and the session as they were.
C22_DispatchFaultIsolated ==
    /\ [](\A t \in SingleCaller : Dispatched(t) =>
            \A i \in 1..Len(emitted[t]) : CallsOf(t, i) = callbacks[emitted[t][i].event])
    /\ [][\A t \in SingleCaller : Invoke(t) =>
            /\ result' = result
            /\ session' = session]_vars

C22_Witness ==
    \E t \in SingleCaller :
        /\ Dispatched(t)
        /\ result[t].kind = "ok"
        /\ \E k, j \in 1..Len(dispatch[t].invoked) :
            /\ k < j
            /\ dispatch[t].invoked[k].delivery = dispatch[t].invoked[j].delivery
            /\ dispatch[t].invoked[k].outcome = "raises"

\* C23: when the loop over an event's list ends, every callback then in the
\* list has been called for this event, and the calls made for it were made
\* with this event's name and data.
C23_DispatchInvokesEveryRegistered ==
    [][\A t \in SingleCaller : EndDispatch(t) =>
        LET d == dispatch[t].delivered + 1
            list == callbacks[Current(t).event]
        IN /\ \A k \in 1..Len(list) : \E j \in 1..Len(CallsOf(t, d)) : CallsOf(t, d)[j] = list[k]
           /\ \A j \in 1..Len(dispatch[t].invoked) :
                dispatch[t].invoked[j].delivery = d =>
                    /\ dispatch[t].invoked[j].event = Current(t).event
                    /\ dispatch[t].invoked[j].data = Current(t).data]_vars

Listed(list, x) == \E k \in 1..Len(list) : list[k] = x
First(list, x) == CHOOSE k \in 1..Len(list) : list[k] = x /\ \A j \in 1..(k - 1) : list[j] # x
OtherLists(e) == [c \in EventNames \ {e} |-> callbacks[c]]

\* C24: register_callback puts the callback at the end of the event's list
\* and leaves the lists of the other events alone; unregister_callback takes
\* out the first entry equal to the callback, the entries before it stay in
\* place and those after it move up by one, and nothing changes when the
\* callback is not in the list; a callback that is called is in the list
\* of the event being dispatched.
C24_RegistryAppendsAndRemovesFirst ==
    [][\A t \in SingleCaller :
        /\ \A e \in EventNames : \A cb \in CallbackIds :
            /\ RegisterCallbackWith(t, e, cb) =>
                /\ Len(callbacks'[e]) = Len(callbacks[e]) + 1
                /\ callbacks'[e][Len(callbacks'[e])] = cb
                /\ \A k \in 1..Len(callbacks[e]) : callbacks'[e][k] = callbacks[e][k]
                /\ OtherLists(e)' = OtherLists(e)
            /\ UnregisterCallbackWith(t, e, cb) /\ ~Listed(callbacks[e], cb) =>
                callbacks' = callbacks
            /\ UnregisterCallbackWith(t, e, cb) /\ Listed(callbacks[e], cb) =>
                LET i == First(callbacks[e], cb)
                IN /\ Len(callbacks'[e]) = Len(callbacks[e]) - 1
                   /\ \A k \in 1..(i - 1) : callbacks'[e][k] = callbacks[e][k]
                   /\ \A k \in i..Len(callbacks'[e]) : callbacks'[e][k] = callbacks[e][k + 1]
                   /\ OtherLists(e)' = OtherLists(e)
        /\ Invoke(t) =>
            LET call == dispatch'[t].invoked[Len(dispatch'[t].invoked)]
            IN Listed(callbacks[call.event], call.callback)]_vars

\* An unregister_callback has returned and a list still holds two
\* different callbacks.
C24_Witness ==
    \E t \in SingleCaller : \E e \in EventNames :
        /\ pc[t] = "done"
        /\ op[t] = "unregister_callback"
        /\ callbacks[e] = <<"cb2", "cb1">>

FloatRegistersDecode ==
    codec.write # NoFloatOp =>
        /\ Len(codec.write.registers) = 2
        /\ \A k \in 1..2 : codec.write.registers[k] \in 0..MaxRegister
        /\ decode_32bit_float(codec.write.byte_order, fromRegisters(codec.write.registers))
               = codec.write.value

FloatReadBack ==
    /\ codec.write # NoFloatOp
    /\ codec.read # NoFloatOp
    /\ codec.read.address = codec.write.address
    /\ codec.read.byte_order = codec.write.byte_order
    /\ codec.read.word_order = codec.write.word_order
    => codec.read.value = codec.write.value

FloatCallSucceeds(t) ==
    /\ pc[t] = "done" /\ op[t] = "write_float" /\ connected =>
        result[t] = Ok(<<>>) /\ codec.write # NoFloatOp
    /\ pc[t] = "done" /\ op[t] = "read_float" /\ connected =>
        result[t].kind = "ok" /\ codec.read # NoFloatOp

ValidArguments(a) ==
    /\ a.protocol \in {"TCP", "RTU", "tcp"}
    /\ a.slave_id \in 1..247
    /\ a.baudrate \in valid_baudrates
    /\ a.bytesize \in {7, 8}
    /\ a.parity \in {"N", "E", "O", "n"}
    /\ a.stopbits \in {1, 2}

Failed(kind) ==
    /\ instance.stage = "raised"
    /\ instance.raised = kind
    /\ instance.driver = "none"

Constructed ==
    /\ instance.stage = "constructed"
    /\ instance.raised = "none"
    /\ ~instance.driver.connected
    /\ instance.driver.last_error = NoError

\* C26 as stated: the constructor raises SA32ConfigurationError and yields
\* no session when an argument is invalid, and yields a Disconnected session
\* without error when all are valid.
C26_ConstructionValidates ==
    instance.stage \notin {"none", "called"} =>
        IF ValidArguments(instance.args) THEN Constructed ELSE Failed("SA32ConfigurationError")

\* C26, amended: that holds when pymodbus is installed or the session is a
\* mock one; otherwise the constructor raises ImportError whatever the
\* arguments.
C26_ConstructionValidatesWhenImportable ==
    instance.stage \notin {"none", "called"} =>
        IF ~instance.PYMODBUS_AVAILABLE /\ ~instance.args.mock_mode THEN Failed("ImportError")
        ELSE IF ValidArguments(instance.args) THEN Constructed
        ELSE Failed("SA32ConfigurationError")

\* Slave id 248 with everything else valid, for a mock session on a machine
\* without pymodbus.
C26_Witness ==
    /\ Failed("SA32ConfigurationError")
    /\ instance.message = "Slave ID invalide"
    /\ instance.args.slave_id = 248
    /\ ValidArguments([instance.args EXCEPT !.slave_id = 1])
    /\ instance.args.mock_mode
    /\ ~instance.PYMODBUS_AVAILABLE

\* C27: on a session that is not a mock one set_mock_register returns
\* normally and leaves the store, the connection state, the handle, the
\* last error and the observers as they were, and dispatches nothing; on a
\* mock session it stores the value at the address and changes nothing
\* else, and a read returns, for every address whose latest write was a
\* set_mock_register, the value that call stored.
C27_SetMockRegisterOnlyInMockMode ==
    [][\A t \in SingleCaller :
        /\ \A a \in Addrs : \A v \in Values :
            SetMockRegisterWith(t, a, v) =>
                /\ result'[t] = Ok(<<>>)
                /\ emitted'[t] = emitted[t]
                /\ UNCHANGED <<connected, client, last_error, callbacks>>
                /\ IF mock_mode
                   THEN /\ mock_registers'[a] = v
                        /\ \A x \in Addrs \ {a} : mock_registers'[x] = mock_registers[x]
                   ELSE mock_registers' = mock_registers
        /\ ReadReturns(t) =>
            \A i \in 1..Len(result'[t].val) :
                LET x == ReadAddress(t)' + i - 1 IN
                x \in history.manual => result'[t].val[i] = history.written[x]]_vars

\* set_mock_register has returned on a connected session that is not a
\* mock one and has an error recorded; the store is as empty as before.
C27_Witness ==
    \E t \in SingleCaller :
        /\ pc[t] = "done" /\ op[t] = "set_mock_register" /\ result[t] = Ok(<<>>)
        /\ ~mock_mode /\ connected /\ client = "open"
        /\ last_error # NoError
        /\ mock_registers = EmptyStore

\* The on_data_received events among those an operation has dispatched.
DataReceived(events) == SelectSeq(events, LAMBDA ev : ev.event = "on_data_received")

\* C28: a read of n registers from address a that succeeds, on a mock or a
\* real session, returns n values and has dispatched on_data_received
\* exactly once, with a and the returned values as its data; a read that
\* has failed has dispatched no on_data_received.
C28_ReadDispatchesDataReceivedOnce ==
    /\ [][\A t \in SingleCaller : \A a \in Addrs : \A n \in 1..(MaxAddr + 1) :
            /\ pc[t] = "data_body" /\ op[t] \in ReadOps
            /\ \/ \E gen \in Gens(a, n) : MockReadWith(t, a, n, gen)
               \/ \E values \in [1..n -> Values] : RealOkWith(t, a, n, values)
            => /\ result'[t].kind = "ok"
               /\ Len(result'[t].val) = n
               /\ Len(DataReceived(emitted'[t])) = 1
               /\ Len(DataReceived(emitted'[t])[1].data) = n + 1
               /\ DataReceived(emitted'[t])[1].data[1] = a
               /\ SubSeq(DataReceived(emitted'[t])[1].data, 2, n + 1) = result'[t].val]_vars
    /\ [](\A t \in SingleCaller :
            pc[t] = "done" /\ op[t] \in ReadOps =>
                Len(DataReceived(emitted[t])) = IF result[t].kind = "ok" THEN 1 ELSE 0)

\* A read of two registers has succeeded after a reconnection.
C28_Witness ==
    \E t \in SingleCaller :
        /\ pc[t] = "done" /\ op[t] = "read_input_registers" /\ result[t].kind = "ok"
        /\ ~mock_mode
        /\ Len(result[t].val) = 2
        /\ Len(emitted[t]) = 2
        /\ emitted[t][2] = Event("on_data_received", <<0>> \o result[t].val)

\* A connect() called by the reconnect loop of a register operation
\* succeeds in this step.
ReconnectSucceeds(t) ==
    /\ op[t] \in RegisterOps
    /\ pc[t] = "conn_body"
    /\ connected'

AfterReconnect(t) == op[t] \in RegisterOps /\ reconnRet[t] = "true"

\* C29: when a connect() of the reconnect loop succeeds, the loop returns:
\* the operation goes on to its data access, and from then on it makes no
\* connect attempt and sleeps no more; one connect() was called per
\* iteration and one delay taken per failed attempt; the session is
\* Connected during the data access; and the operation ends with the outcome
\* of its data access, not with the SA32ConnectionError of a failed attempt.
C29_FirstSuccessEndsReconnect ==
    /\ [][\A t \in SingleCaller :
            /\ ReconnectSucceeds(t) =>
                /\ pc'[t] = "data_lock"
                /\ result'[t] = NoResult
                /\ ncalls'[t] = attempt[t] /\ nsleeps'[t] = attempt[t] - 1
            /\ AfterReconnect(t) /\ pc'[t] # "idle" =>
                /\ pc'[t] \notin {"ensure", "conn_lock", "conn_body", "sleep"}
                /\ ncalls'[t] = ncalls[t]
                /\ nsleeps'[t] = nsleeps[t]
                /\ attempt'[t] = attempt[t]]_vars
    /\ [](\A t \in SingleCaller :
            AfterReconnect(t) =>
                /\ pc[t] \in {"data_lock", "data_body", "wr_loop"} => connected
                /\ pc[t] = "done" => result[t].kind \in {"ok", "CommunicationError"})

\* The second attempt of a read on a real session succeeded after one failed
\* attempt and one delay, and the read returned its values.
C29_Witness ==
    \E t \in SingleCaller :
        /\ AfterReconnect(t) /\ pc[t] = "done" /\ result[t].kind = "ok"
        /\ ~mock_mode /\ connected
        /\ attempt[t] = 2 /\ ncalls[t] = 2 /\ nsleeps[t] = 1
        /\ Len(emitted[t]) = 3
        /\ emitted[t][1].event = "on_error"
        /\ emitted[t][2].event = "on_connect"
        /\ emitted[t][3].event = "on_data_received"

\* The on_connect events among those a thread's operation has dispatched.
NConnect(t) == Len(SelectSeq(emitted[t], LAMBDA ev : ev.event = "on_connect"))

\* C30: a step that takes the session from Disconnected to Connected
\* dispatches on_connect once, on the thread that connects, whether it is an
\* explicit connect() or a connect() of the reconnect loop, on a mock or a
\* real session; no other step dispatches on_connect.
C30_ConnectDispatchedOncePerTransition ==
    [][IF ~connected /\ connected'
       THEN \E t \in Threads :
               /\ NConnect(t)' = NConnect(t) + 1
               /\ emitted'[t] = Append(emitted[t], Event("on_connect", <<>>))
               /\ \A u \in Threads \ {t} : emitted'[u] = emitted[u]
       ELSE \A t \in Threads : NConnect(t)' <= NConnect(t)]_vars

\* A register operation has reconnected a real session at its second
\* attempt: one on_connect for the one transition.
C30_Witness ==
    \E t \in Threads :
        /\ op[t] \in RegisterOps /\ pc[t] = "data_lock" /\ attempt[t] = 2
        /\ ~mock_mode /\ connected
        /\ NConnect(t) = 1
        /\ emitted[t][Len(emitted[t])] = Event("on_connect", <<>>)

\* ------------------------------------------------------------------ C31
\* The data access of a register operation: the step taken inside the
\* operation's `with self._lock` that ends the operation.
DataAccess(t) == pc[t] \in {"data_body", "wr_loop"} /\ pc'[t] = "done"

\* C31: on a non-mock session without auto-reconnect, a register operation
\* whose data access happens while the session is Disconnected (another
\* thread's disconnect() having completed in between) fails with
\* SA32ConnectionError, never with SA32CommunicationError.
C31_DisconnectedAccessRaisesConnectionError ==
    [][\A t \in Threads :
            DataAccess(t) /\ ~mock_mode /\ ~auto_reconnect /\ ~connected
                => result'[t] = SA32ConnectionError]_vars

\* ------------------------------------------------------------------ calls from callbacks
\* connect, disconnect and the register operations dispatch their events
\* inside `with self._lock`; a callback runs on the calling thread and may
\* call an operation of the same session, which takes the lock again.
MaxNesting == 1
MaxInnerCalls == 1

Frames(t) == nesting[t].frames
After(kind, r) == [kind |-> kind, result |-> r, calls |-> 0]

\* self._trigger_callbacks(name, data) called with the lock held: the
\* callbacks of the event run before the operation goes on as `after` says.
HeldDispatch(t, name, data, after) ==
    /\ emitted' = [emitted EXCEPT ![t] = trigger_callbacks(t, name, data)]
    /\ nesting' = [nesting EXCEPT ![t].after = after]
    /\ pc' = [pc EXCEPT ![t] = "callback"]
    /\ UNCHANGED <<config, codec, instance, callbacks, history, pair, scope, dispatch,
                   lock, op, loopvars, wr, result, nresults>>

\* connect(), mock mode: self._connected = True; _trigger_callbacks('on_connect')
HeldConnectMock(t) ==
    /\ pc[t] = "conn_body"
    /\ ~connected
    /\ mock_mode
    /\ connected' = TRUE
    /\ HeldDispatch(t, "on_connect", <<>>, After("connect_true", NoResult))
    /\ UNCHANGED <<client, last_error, mock_registers>>

\* connect(), the open succeeds
HeldConnectOpen(t) ==
    /\ pc[t] = "conn_body"
    /\ ~connected
    /\ ~mock_mode
    /\ client' = "open"
    /\ connected' = TRUE
    /\ last_error' = NoError
    /\ HeldDispatch(t, "on_connect", <<>>, After("connect_true", NoResult))
    /\ UNCHANGED mock_registers

\* connect(), the open fails: except Exception dispatches on_error, then raises
HeldConnectOpenFail(t) ==
    /\ pc[t] = "conn_body"
    /\ ~connected
    /\ ~mock_mode
    /\ client' = "closed"
    /\ last_error' = EquipmentError(TRUE, -1)
    /\ HeldDispatch(t, "on_error", <<-1>>, After("connect_raise", NoResult))
    /\ UNCHANGED <<connected, mock_registers>>

\* disconnect(), mock mode
HeldDisconnectMock(t) ==
    /\ pc[t] = "disc_body"
    /\ connected
    /\ mock_mode
    /\ connected' = FALSE
    /\ HeldDispatch(t, "on_disconnect", <<>>, After("return", Ok(<<>>)))
    /\ UNCHANGED <<client, last_error, mock_registers>>

\* disconnect(), self._client.close() returns
HeldDisconnectClose(t) ==
    /\ pc[t] = "disc_body"
    /\ connected
    /\ ~mock_mode
    /\ connected' = FALSE
    /\ client' = "None"
    /\ HeldDispatch(t, "on_disconnect", <<>>, After("return", Ok(<<>>)))
    /\ UNCHANGED <<last_error, mock_registers>>

\* A read in mock mode: the values are read, then on_data_received is dispatched.
HeldMockRead(t) ==
    /\ pc[t] = "data_body"
    /\ mock_mode
    /\ op[t] \in ReadOps
    /\ \E a \in Addrs : \E n \in Counts(op[t], a) : \E gen \in Gens(a, n) :
        LET values == mock_read_registers(mock_registers, a, n, gen) IN
        /\ mock_registers' = mock_store_after_read(mock_registers, a, n, gen)
        /\ HeldDispatch(t, "on_data_received", data_received(a, values),
                        After("return", Ok(values)))
    /\ UNCHANGED <<connected, client, last_error>>

\* A read the transport answers normally.
HeldRealRead(t) ==
    /\ pc[t] = "data_body"
    /\ ~mock_mode
    /\ op[t] \in ReadOps
    /\ "ok" \in TransportOutcomes(client)
    /\ last_error' = NoError
    /\ \E a \in Addrs : \E n \in Counts(op[t], a) : \E values \in [1..n -> Values] :
        HeldDispatch(t, "on_data_received", data_received(a, values),
                     After("return", Ok(values)))
    /\ UNCHANGED <<connected, client, mock_registers>>

\* A write the transport acknowledges: nothing is dispatched.
RealWriteOk(t) ==
    /\ op[t] \in WriteOps
    /\ RealOk(t)

\* A register operation the transport fails: the except branches record the
\* error and dispatch on_error before raising SA32CommunicationError.
HeldRealFailure(t) ==
    /\ pc[t] = "data_body"
    /\ ~mock_mode
    /\ \E error \in {ModbusError, UnexpectedError} :
        /\ \/ error = ModbusError /\ "ModbusException" \in TransportOutcomes(client)
           \/ error = UnexpectedError /\ "Exception" \in TransportOutcomes(client)
           \/ error = UnexpectedError /\ "error_response" \in TransportOutcomes(client)
        /\ last_error' = error
        /\ HeldDispatch(t, "on_error", <<error.code>>,
                        After("return", SA32CommunicationError))
    /\ UNCHANGED <<connected, client, mock_registers>>

\* A callback of the event being dispatched calls operation o of the session:
\* the locals of the dispatching operation wait in a frame.
CallbackCalls(t, o) ==
    /\ pc[t] = "callback"
    /\ Len(Frames(t)) < MaxNesting
    /\ nesting[t].after.calls < MaxInnerCalls
    /\ nesting' = [nesting EXCEPT
                     ![t].frames = Append(@, [op |-> op[t], emitted |-> emitted[t],
                                              result |-> result[t], attempt |-> attempt[t],
                                              reconnRet |-> reconnRet[t], ncalls |-> ncalls[t],
                                              nsleeps |-> nsleeps[t],
                                              after |-> [nesting[t].after EXCEPT !.calls = @ + 1]]),
                     ![t].after = NoAfter]
    /\ op' = [op EXCEPT ![t] = o]
    /\ pc' = [pc EXCEPT ![t] =
                CASE o = "connect" -> "conn_lock"
                  [] o = "disconnect" -> "disc_lock"
                  [] OTHER -> "ensure"]
    /\ attempt' = [attempt EXCEPT ![t] = 0]
    /\ reconnRet' = [reconnRet EXCEPT ![t] = "none"]
    /\ ncalls' = [ncalls EXCEPT ![t] = 0]
    /\ nsleeps' = [nsleeps EXCEPT ![t] = 0]
    /\ emitted' = [emitted EXCEPT ![t] = <<>>]
    /\ result' = [result EXCEPT ![t] = NoResult]
    /\ UNCHANGED <<config, codec, instance, callbacks, history, pair, scope, dispatch,
                   session, lock, wr, nresults>>

\* The operation a callback called has ended; what it returned or raised
\* stays in the callback (try: callback(...) except Exception), and the
\* dispatching operation has its locals back.
CallbackReturns(t) ==
    /\ pc[t] = "done"
    /\ Len(Frames(t)) > 0
    /\ LET frame == Frames(t)[Len(Frames(t))] IN
        /\ nesting' = [nesting EXCEPT
                         ![t].frames = SubSeq(@, 1, Len(@) - 1),
                         ![t].after = frame.after]
        /\ op' = [op EXCEPT ![t] = frame.op]
        /\ emitted' = [emitted EXCEPT ![t] = frame.emitted]
        /\ result' = [result EXCEPT ![t] = frame.result]
        /\ attempt' = [attempt EXCEPT ![t] = frame.attempt]
        /\ reconnRet' = [reconnRet EXCEPT ![t] = frame.reconnRet]
        /\ ncalls' = [ncalls EXCEPT ![t] = frame.ncalls]
        /\ nsleeps' = [nsleeps EXCEPT ![t] = frame.nsleeps]
    /\ pc' = [pc EXCEPT ![t] = "callback"]
    /\ UNCHANGED <<config, codec, instance, callbacks, history, pair, scope, dispatch,
                   session, lock, wr, nresults>>

\* _trigger_callbacks has returned: the operation returns or raises, which
\* leaves its `with self._lock`.
HeldDispatchEnds(t) ==
    /\ pc[t] = "callback"
    /\ Release(t)
    /\ nesting' = [nesting EXCEPT ![t].after = NoAfter]
    /\ CASE nesting[t].after.kind = "connect_true" -> ConnectReturnsTrue(t)
         [] nesting[t].after.kind = "connect_raise" -> ConnectRaises(t)
         [] OTHER -> /\ pc' = [pc EXCEPT ![t] = "done"]
                     /\ result' = [result EXCEPT ![t] = nesting[t].after.result]
                     /\ UNCHANGED loopvars
    /\ UNCHANGED <<config, codec, instance, callbacks, history, pair, scope, dispatch,
                   session, op, wr, emitted, nresults>>

\* The caller of the outermost operation takes its result.
OutermostReturn(t) ==
    /\ Len(Frames(t)) = 0
    /\ Return(t)

ReentrantStep(t) ==
    \/ Call(t)
    \/ OutermostReturn(t)
    \/ EnsureConnectedOk(t)
    \/ EnsureConnectedReconnect(t)
    \/ EnsureConnectedFail(t)
    \/ Sleep(t)
    \/ ConnectAcquire(t)
    \/ ConnectAlready(t)
    \/ HeldConnectMock(t)
    \/ HeldConnectOpen(t)
    \/ HeldConnectOpenFail(t)
    \/ DisconnectAcquire(t)
    \/ DisconnectNotConnected(t)
    \/ HeldDisconnectMock(t)
    \/ HeldDisconnectClose(t)
    \/ DisconnectCloseFail(t)
    \/ DataAcquire(t)
    \/ HeldMockRead(t)
    \/ MockWriteRegister(t)
    \/ MockWriteRegistersBegin(t)
    \/ MockWriteRegistersStep(t)
    \/ MockWriteRegistersEnd(t)
    \/ HeldRealRead(t)
    \/ RealWriteOk(t)
    \/ HeldRealFailure(t)
    \/ \E o \in Ops : CallbackCalls(t, o)
    \/ CallbackReturns(t)
    \/ HeldDispatchEnds(t)

NextReentrant == \E t \in SingleCaller : ReentrantStep(t)

\* One caller; the thread runs whenever it can take a step.
SpecReentrant == Init /\ [][NextReentrant]_vars /\ WF_vars(NextReentrant)

\* ------------------------------------------------------------------ C32
\* The positions of an operation inside its `with self._lock`.
InsideLock == {"conn_body", "disc_body", "data_body", "wr_loop", "callback"}

\* C32: the session lock is reentrant.  While an operation called from an
\* event callback runs, the thread still holds the lock of the dispatching
\* operation; the called operation (connect, disconnect, a register
\* operation, a connect() of its reconnect loop) is never kept waiting for
\* the lock and holds it one level deeper; and every operation that was
\* started, the dispatching one included, ends.
C32_LockReentrant ==
    /\ [](\A t \in SingleCaller :
            /\ Len(Frames(t)) > 0 => lockOwner = t
            /\ pc[t] \in {"conn_lock", "disc_lock", "data_lock"} => CanAcquire(t)
            /\ pc[t] \in InsideLock => lockOwner = t /\ lockDepth = Len(Frames(t)) + 1
            /\ pc[t] \notin InsideLock => lockDepth = Len(Frames(t)))
    /\ \A t \in SingleCaller :
            (pc[t] # "idle") ~> (pc[t] = "done" /\ Len(Frames(t)) = 0)

\* A register operation called from a callback of disconnect() has
\* reconnected through connect() and succeeded, all while disconnect() holds
\* the lock.
C32_Witness ==
    \E t \in SingleCaller :
        /\ Len(Frames(t)) = 1
        /\ Frames(t)[1].op = "disconnect"
        /\ pc[t] = "done" /\ op[t] \in RegisterOps
        /\ reconnRet[t] = "true"
        /\ result[t].kind = "ok"
        /\ lockOwner = t /\ lockDepth = 1

\* ------------------------------------------------------------------ C33
\* The constructor stores reconnect_delay as given (no check), so a session
\* can carry a negative delay.  One caller of such a session or of one with
\* no delay.
Delays == {-1, 0}

InitDelay ==
    /\ mock_mode \in BOOLEAN
    /\ auto_reconnect \in BOOLEAN
    /\ max_reconnect_attempts \in 0..MaxReconnect
    /\ reconnect_delay \in Delays
    /\ connected = FALSE
    /\ client = "None"
    /\ last_error = NoError
    /\ mock_registers = EmptyStore
    /\ lockOwner = NoThread
    /\ lockDepth = 0
    /\ pc = [t \in Threads |-> "idle"]
    /\ op = [t \in Threads |-> "none"]
    /\ attempt = [t \in Threads |-> 0]
    /\ reconnRet = [t \in Threads |-> "none"]
    /\ ncalls = [t \in Threads |-> 0]
    /\ nsleeps = [t \in Threads |-> 0]
    /\ wr = [t \in Threads |-> NoWrite]
    /\ emitted = [t \in Threads |-> <<>>]
    /\ result = [t \in Threads |-> NoResult]
    /\ nresults = [t \in Threads |-> 0]
    /\ callbacks = NoCallbacks
    /\ history = Untracked
    /\ drivers = [s \in Sessions |-> NewDriver(s)]
    /\ heap = [s \in Sessions |-> EmptyStore]
    /\ scope = [t \in Threads |-> "outside"]
    /\ dispatch = [t \in Threads |-> NoDispatch]
    /\ codec = NoCodec
    /\ instance = NoInstance
    /\ nesting = [t \in Threads |-> NoNesting]

SpecDelay == InitDelay /\ [][NextSeq]_vars

\* C33: every call of connect or of a register operation returns a
\* successful result or fails with SA32ConnectionError or
\* SA32CommunicationError, nothing else; and when it has failed, LastError is
\* present with a non-zero code as the call returns.
C33_FailuresAreClassified ==
    \A t \in SingleCaller :
        pc[t] = "done" /\ op[t] \in {"connect"} \cup RegisterOps =>
            /\ result[t].kind \in {"ok", "ConnectionError", "CommunicationError"}
            /\ result[t].kind # "ok" => last_error.status /\ last_error.code # 0

\* The same for the sessions whose delay is not negative.
FailuresAreClassifiedWithValidDelay == reconnect_delay >= 0 => C33_FailuresAreClassified

\* ------------------------------------------------------------------ C35
\* The timing arguments the specification calls invalid.
InvalidTiming(a) ==
    \/ a.timeout <= 0
    \/ a.max_reconnect_attempts < 0
    \/ a.reconnect_delay < 0

\* C35: where the constructor gets as far as validating (pymodbus installed,
\* or a mock session), a timeout that is not greater than 0, a negative
\* max_reconnect_attempts or a negative reconnect_delay makes it raise
\* SA32ConfigurationError and yield no session.
C35_TimingArgumentsValidated ==
    /\ instance.stage \notin {"none", "called"}
    /\ instance.PYMODBUS_AVAILABLE \/ instance.args.mock_mode
    /\ InvalidTiming(instance.args)
    => Failed("SA32ConfigurationError")

\* ------------------------------------------------------------------ register words
\* A connected or disconnected mock session whose caller passes any integer
\* as a register value: the ends of the 16-bit range, the first value beyond
\* it, and the 99999 of test_set_mock_register.
Words == {0, MaxRegister, MaxRegister + 1, 99999}

\* The draws of one read, as random.randint(0, 65535) makes them.
WordGens(address, count) ==
    LET window == (address..(address + count - 1)) \cap Addrs
    IN {[x \in Addrs |-> IF x \in window THEN g[x] ELSE 0] : g \in [window -> Generated]}

MockWriteWord(t) == \E a \in Addrs : \E v \in Words : MockWriteRegisterWith(t, a, v)

MockReadWords(t) ==
    /\ pc[t] = "data_body"
    /\ \E a \in Addrs : \E n \in Counts(op[t], a) : \E gen \in WordGens(a, n) :
        MockReadWith(t, a, n, gen)

SetMockWord(t) == \E a \in Addrs : \E v \in Words : SetMockRegisterWith(t, a, v)

WordsStep(t) ==
    \/ \E o \in {"connect", "read_holding_registers", "write_register"} : CallOp(t, o)
    \/ Return(t)
    \/ EnsureConnectedOk(t)
    \/ EnsureConnectedFail(t)
    \/ ConnectAcquire(t)
    \/ ConnectAlready(t)
    \/ ConnectMock(t)
    \/ DataAcquire(t)
    \/ MockReadWords(t)
    \/ MockWriteWord(t)
    \/ SetMockWord(t)

NextWords == \E t \in SingleCaller : WordsStep(t)

SpecWords == InitStore /\ [][NextWords]_vars

\* ------------------------------------------------------------------ C34
\* The values a read has just returned are those the store holds at the
\* addresses read.
ReadShowsStore(t) ==
    LET data == emitted[t][Len(emitted[t])].data
    IN \A i \in 1..Len(result[t].val) : result[t].val[i] = mock_registers[data[1] + i - 1]

\* C34 as stated: every value the mock store holds, and so every value a
\* mock read returns, is in 0..65535.
C34_StoreHoldsWords ==
    /\ \A a \in Addrs : mock_registers[a] # Unset => mock_registers[a] \in 0..MaxRegister
    /\ \A t \in SingleCaller :
          pc[t] = "done" /\ op[t] \in ReadOps /\ result[t].kind = "ok" =>
              \A i \in 1..Len(result[t].val) : result[t].val[i] \in 0..MaxRegister

\* C34, amended: a value of the mock store is the value a caller last wrote
\* at its address (write_register, set_mock_register: stored as given,
\* whatever the integer), or, at an address never written, a generated value
\* in 0..65535; a mock read returns what the store holds.
C34_StoreHoldsWrittenOrGenerated ==
    /\ \A a \in Addrs :
          mock_registers[a] # Unset =>
              IF history.written[a] # Unset
              THEN mock_registers[a] = history.written[a]
              ELSE mock_registers[a] \in 0..MaxRegister
    /\ \A t \in SingleCaller :
          pc[t] = "done" /\ op[t] \in ReadOps /\ result[t].kind = "ok" => ReadShowsStore(t)

\* A read of two registers has returned the 99999 that set_mock_register
\* stored and a generated value.
C34_Witness ==
    \E t \in SingleCaller :
        /\ pc[t] = "done" /\ op[t] = "read_holding_registers" /\ result[t].kind = "ok"
        /\ Len(result[t].val) = 2
        /\ result[t].val[1] = 99999 /\ 0 \in history.manual
        /\ history.written[1] = Unset /\ result[t].val[2] = MaxRegister

\* ------------------------------------------------------------------ C36
\* C36: a mock write of v at a leaves v at a, whatever was there, and every
\* other address as it was; each store of a mock write_registers does the
\* same for its address; a mock read of n registers from a gives a value to
\* the addresses of a..a+n-1 that had none and changes nothing else; and a
\* mock write dispatches no event and leaves the connection state alone.
C36_MockStoreFrame ==
    [][\A t \in SingleCaller :
        /\ pc[t] = "data_body" /\ op[t] = "write_register" /\ pc'[t] = "done" =>
            \A a \in Addrs : \A v \in Values :
              MockWriteRegisterWith(t, a, v) =>
                  /\ mock_registers'[a] = v
                  /\ \A x \in Addrs \ {a} : mock_registers'[x] = mock_registers[x]
                  /\ emitted'[t] = emitted[t]
                  /\ connected' = connected
        /\ pc[t] = "wr_loop" /\ MockWriteRegistersStep(t) =>
              LET a == wr[t].address + wr[t].i IN
                  /\ mock_registers'[a] = wr[t].values[wr[t].i + 1]
                  /\ \A x \in Addrs \ {a} : mock_registers'[x] = mock_registers[x]
                  /\ emitted'[t] = emitted[t]
                  /\ connected' = connected
        /\ pc[t] = "data_body" /\ op[t] \in ReadOps /\ pc'[t] = "done" =>
            \A a \in Addrs : \A n \in Counts(op[t], a) :
              (\E gen \in Gens(a, n) : MockReadWith(t, a, n, gen)) =>
                  \A x \in Addrs :
                      IF mock_registers[x] # Unset
                      THEN mock_registers'[x] = mock_registers[x]
                      ELSE mock_registers'[x] # Unset <=> x \in Range(a, n)]_vars

\* A mock write has returned on a connected mock session whose store holds
\* two different values at two addresses, and no event was dispatched.
C36_Witness ==
    \E t \in SingleCaller :
        /\ mock_mode /\ connected
        /\ pc[t] = "done" /\ op[t] = "write_register" /\ result[t].kind = "ok"
        /\ mock_registers[0] # Unset /\ mock_registers[1] # Unset
        /\ mock_registers[0] # mock_registers[1]
        /\ emitted[t] = <<>>

\* ------------------------------------------------------------------ C37
\* connect() on a Disconnected mock session: the state becomes Connected,
\* on_connect is dispatched, no handle is made, and True goes to the caller
\* of connect() or to the reconnect loop, which is then at its first attempt.
MockConnectSucceeds ==
    [][\A t \in SingleCaller :
        mock_mode /\ pc[t] = "conn_body" /\ ~connected =>
            /\ connected'
            /\ client' = "None"
            /\ emitted'[t] = Append(emitted[t], Event("on_connect", <<>>))
            /\ IF op[t] = "connect"
               THEN pc'[t] = "done" /\ result'[t] = Ok(<<>>)
               ELSE attempt[t] = 1 /\ reconnRet'[t] = "true" /\ pc'[t] = "data_lock"]_vars

\* A register operation of an auto-reconnecting mock session has ended: it
\* succeeded, on a Connected session, after at most one connect() of a
\* reconnect loop that was not exhausted.
MockReconnected(t) ==
    mock_mode /\ auto_reconnect /\ op[t] \in RegisterOps /\ pc[t] = "done" =>
        /\ result[t].kind = "ok"
        /\ connected
        /\ reconnRet[t] # "false"
        /\ ncalls[t] <= 1

\* C37 as stated: a mock session never has a handle, its connect() always
\* succeeds, and with auto-reconnect every register operation on a
\* Disconnected mock session reconnects at the first attempt and succeeds.
C37_MockReconnectsWhateverBudget ==
    /\ [](mock_mode => client = "None")
    /\ MockConnectSucceeds
    /\ [](\A t \in SingleCaller : MockReconnected(t))

\* C37, amended: the same, the reconnection holding for a budget of at least
\* one attempt (with max_reconnect_attempts = 0 the loop makes no attempt and
\* the session stays Disconnected).
C37_MockBypassesTransport ==
    /\ [](mock_mode => client = "None")
    /\ MockConnectSucceeds
    /\ [](\A t \in SingleCaller : max_reconnect_attempts >= 1 => MockReconnected(t))

\* A register operation called on a Disconnected mock session has ended
\* after one connect() of the reconnect loop.
C37_Witness ==
    \E t \in SingleCaller :
        /\ mock_mode /\ auto_reconnect /\ max_reconnect_attempts >= 1
        /\ op[t] \in RegisterOps /\ pc[t] = "done"
        /\ ncalls[t] = 1 /\ reconnRet[t] = "true"
        /\ result[t].kind = "ok"
        /\ connected /\ client = "None"
        /\ Len(emitted[t]) >= 1 /\ emitted[t][1] = Event("on_connect", <<>>)

\* ------------------------------------------------------------------ C38
\* C38: on a non-mock session, a connect() of a reconnect sequence that
\* fails leaves LastError present with code -1, dispatches on_error once and
\* leaves the session Disconnected; when the sequence has ended with all its
\* k = max_reconnect_attempts attempts failed, it has made k connect() calls
\* and dispatched exactly k events, all of them on_error with code -1, and
\* the session is Disconnected.
C38_FailedAttemptsDispatchErrors ==
    /\ [][\A t \in SingleCaller :
            /\ ~mock_mode /\ op[t] \in RegisterOps
            /\ pc[t] = "conn_body" /\ ~connected /\ ~connected'
            => /\ last_error' = EquipmentError(TRUE, -1)
               /\ emitted'[t] = Append(emitted[t], Event("on_error", <<-1>>))]_vars
    /\ [](\A t \in SingleCaller :
            /\ ~mock_mode /\ op[t] \in RegisterOps
            /\ pc[t] = "data_lock" /\ reconnRet[t] = "false"
            => /\ ~connected
               /\ ncalls[t] = max_reconnect_attempts
               /\ Len(emitted[t]) = max_reconnect_attempts
               /\ \A i \in 1..Len(emitted[t]) : emitted[t][i] = Event("on_error", <<-1>>)
               /\ max_reconnect_attempts >= 1 => last_error = EquipmentError(TRUE, -1))

\* A reconnect sequence of at least two attempts has ended, all failed.
C38_Witness ==
    \E t \in SingleCaller :
        /\ ~mock_mode /\ op[t] \in RegisterOps
        /\ pc[t] = "data_lock" /\ reconnRet[t] = "false"
        /\ max_reconnect_attempts >= 2
        /\ Len(emitted[t]) = max_reconnect_attempts
        /\ last_error = EquipmentError(TRUE, -1)
        /\ nsleeps[t] = max_reconnect_attempts - 1

\* ------------------------------------------------------------------ connect race
\* Several threads call connect() or write_register on a non-mock session
\* that auto-reconnects, starts Disconnected and is never disconnected; the
\* transport opens whenever it is asked to.  (An unexpected exception of the
\* write leaves the same state as an error response here, the handle being
\* open whenever the write runs.)
InitConnectRace ==
    /\ Init
    /\ mock_mode = FALSE
    /\ auto_reconnect = TRUE
    /\ max_reconnect_attempts >= 1

ConnectRaceStep(t) ==
    \/ CallOp(t, "connect")
    \/ CallOp(t, "write_register")
    \/ Return(t)
    \/ EnsureConnectedOk(t)
    \/ EnsureConnectedReconnect(t)
    \/ ConnectAcquire(t)
    \/ ConnectAlready(t)
    \/ ConnectOpen(t)
    \/ DataAcquire(t)
    \/ RealOk(t)
    \/ RealErrorResponse(t)
    \/ RealModbusException(t)

NextConnectRace == \E t \in Threads : ConnectRaceStep(t)

SpecConnectRace == InitConnectRace /\ [][NextConnectRace]_vars

\* The on_connect events among those thread t's operation has emitted.
ConnectEvents(t) == {i \in 1..Len(emitted[t]) : emitted[t][i].event = "on_connect"}

\* ------------------------------------------------------------------ C39
\* C39: at most one thread is inside connect()'s `with self._lock`; the
\* step that makes the session Connected opens the one transport and
\* dispatches on_connect in one thread only; once the session is Connected
\* no step opens a transport or dispatches on_connect, and a connect() that
\* finds it Connected returns True (to its caller or to the reconnect loop)
\* with the handle and the events as they were; so among the threads at most
\* one on_connect has been dispatched.
C39_OneOpenOneConnectEvent ==
    /\ [](\A t1, t2 \in Threads :
            pc[t1] = "conn_body" /\ pc[t2] = "conn_body" => t1 = t2)
    /\ [](Cardinality({t \in Threads : ConnectEvents(t) # {}}) <= 1
            /\ \A t \in Threads : Cardinality(ConnectEvents(t)) <= 1)
    /\ [](connected <=> client = "open")
    /\ [][~connected /\ connected' =>
            /\ client = "None" /\ client' = "open"
            /\ \E t \in Threads :
                /\ pc[t] = "conn_body"
                /\ emitted'[t] = Append(emitted[t], Event("on_connect", <<>>))
                /\ \A u \in Threads \ {t} : emitted'[u] = emitted[u]]_vars
    /\ [][connected =>
            /\ connected' /\ client' = client
            /\ \A t \in Threads :
                 Len(emitted'[t]) > Len(emitted[t]) =>
                     emitted'[t][Len(emitted'[t])].event # "on_connect"]_vars
    /\ [][\A t \in Threads :
            pc[t] = "conn_body" /\ connected /\ pc'[t] # "conn_body" =>
                /\ emitted'[t] = emitted[t]
                /\ IF op[t] = "connect"
                   THEN pc'[t] = "done" /\ result'[t] = Ok(<<>>)
                   ELSE pc'[t] = "data_lock" /\ reconnRet'[t] = "true"]_vars

\* Two threads raced: one opened the transport and dispatched on_connect,
\* the other's connect() found the session Connected and returned True.
C39_Witness ==
    \E t1, t2 \in Threads :
        /\ t1 # t2
        /\ client = "open" /\ connected
        /\ pc[t1] = "done" /\ op[t1] = "connect" /\ result[t1] = Ok(<<>>)
        /\ emitted[t1] = <<Event("on_connect", <<>>)>>
        /\ pc[t2] = "done" /\ result[t2] = Ok(<<>>)
        /\ op[t2] = "connect" \/ (reconnRet[t2] = "true" /\ ncalls[t2] = 1)
        /\ ConnectEvents(t2) = {}

\* ------------------------------------------------------------------ C40
\* The positions at which a thread is between the start and the end of a
\* call on the transport: the open of connect(), the close of disconnect(),
\* the request of a register operation.
AtTransport == {"conn_body", "disc_body", "data_body", "wr_loop"}

\* C40: a thread whose disconnect() is about to close and drop the handle
\* holds the session lock, and so does a thread whose open, read or write is
\* in progress; hence no two threads are at the transport together, and the
\* close comes before such a call has started or after it has returned.
C40_CloseExcludesTransportCalls ==
    \A t \in Threads :
        pc[t] \in AtTransport =>
            /\ lockOwner = t
            /\ lockDepth >= 1
            /\ \A u \in Threads \ {t} : pc[u] \notin AtTransport

\* A register operation is at its transport call on an open handle while
\* another thread's disconnect() waits for the lock.
C40_Witness ==
    \E t, u \in Threads :
        /\ t # u
        /\ ~mock_mode /\ connected /\ client = "open"
        /\ pc[t] = "data_body" /\ op[t] \in RegisterOps
        /\ pc[u] = "disc_lock" /\ op[u] = "disconnect"
====
